---- MODULE Spec2Model ----
(***************************************************************************)
(* Model of the ergonomics risk scoring and recommendation engine          *)
(* (lib/ergonomics/calculations.ts, the risk-assessment utilities and the  *)
(* recommendation utilities) and of the API routes that keep assessments,  *)
(* users, recommendation sets, health metrics and progress records in      *)
(* memory.                                                                 *)
(*                                                                         *)
(* Units.  Scores are carried in hundredths of a point (10000 = 100        *)
(* points), which represents every value the scoring code produces for    *)
(* the modelled inputs exactly: the posture multipliers are 1.0/1.1/1.2 and *)
(* 1.0/1.1/1.3 and are carried in tenths.  Frequencies of                  *)
(* MovementPatterns are carried in tenths (5 = 0.5 per hour).  Heights and *)
(* angles are whole centimetres and degrees.  Arithmetic is exact          *)
(* (rational), where the program uses IEEE doubles.                        *)
(***************************************************************************)
EXTENDS Integers, Sequences, FiniteSets, TLC

VARIABLES
    input,      \* the RiskCalculationInput / assessment the caller holds
    ret,        \* the last engine call: its name, its argument summary, its result
    recs,       \* the Recommendation[] array the caller holds
    history,    \* the ErgonomicAssessment[] array the caller holds
    gen,        \* the state of one generateAIRecommendations call
    stores,     \* the in-memory arrays of the API routes
    requests,   \* the route handlers suspended at an await, oldest first
    now,        \* Date.now()
    started     \* the number of requests the server has received

vars == <<input, ret, recs, history, gen, stores, requests, now, started>>

----------------------------------------------------------------------------
(* Library functions *)

Abs(x) == IF x < 0 THEN -x ELSE x

Min(a, b) == IF a < b THEN a ELSE b

Max(a, b) == IF a > b THEN a ELSE b

\* Math.round on the rational num/den (den > 0): floor(num/den + 1/2).
MathRound(num, den) == (2 * num + den) \div (2 * den)

\* Array.prototype.sort with comparator cmp: a stable sort (ECMAScript 2019);
\* cmp(a, b) < 0 places a before b, 0 keeps the input order.
ArraySort(arr, cmp(_, _)) ==
    LET before(j, i) == \/ cmp(arr[j], arr[i]) < 0
                        \/ (cmp(arr[j], arr[i]) = 0 /\ j < i)
        pos(i) == Cardinality({j \in DOMAIN arr : before(j, i)}) + 1
    IN  [k \in DOMAIN arr |-> arr[CHOOSE i \in DOMAIN arr : pos(i) = k]]

\* Array.prototype.filter
ArrayFilter(arr, keep(_)) == SelectSeq(arr, keep)

\* Array.prototype.slice(0, n)
ArraySlice(arr, n) == SubSeq(arr, 1, Min(n, Len(arr)))

----------------------------------------------------------------------------
(* calculatePostureRisk *)

neckRisk(neckAngle) ==
    IF Abs(neckAngle) > 45 THEN 25
    ELSE IF Abs(neckAngle) > 30 THEN 15
    ELSE IF Abs(neckAngle) > 15 THEN 8
    ELSE 0

shoulderRisk ==
    [relaxed |-> 0, elevated |-> 15, hunched |-> 20, forward |-> 18]

backRisk ==
    [natural |-> 0, straight |-> 10, slouched |-> 25, arched |-> 15]

elbowRisk(elbowAngle) ==
    LET elbowDeviation == Abs(elbowAngle - 100)
    IN  IF elbowDeviation > 30 THEN 15
        ELSE IF elbowDeviation > 15 THEN 8
        ELSE 0

wristRisk ==
    [neutral |-> 0, extended |-> 12, flexed |-> 15, deviated |-> 18]

hipRisk(hipAngle) ==
    LET hipDeviation == Abs(hipAngle - 100)
    IN  IF hipDeviation > 20 THEN 10
        ELSE IF hipDeviation > 10 THEN 5
        ELSE 0

feetRisk ==
    ("flat-floor" :> 0) @@ ("footrest" :> 2) @@ ("dangling" :> 15) @@ ("crossed" :> 12)

\* the multipliers, in tenths
ageMultiplier(age) == IF age > 50 THEN 12 ELSE IF age > 35 THEN 11 ELSE 10

hoursMultiplier(workHoursPerDay) ==
    IF workHoursPerDay > 8 THEN 13 ELSE IF workHoursPerDay > 6 THEN 11 ELSE 10

\* the summed penalties before the multipliers, in points
postureRawScore(posture) ==
    neckRisk(posture.neckAngle)
    + shoulderRisk[posture.shoulderPosition]
    + backRisk[posture.backCurvature]
    + elbowRisk(posture.elbowAngle)
    + wristRisk[posture.wristPosition]
    + hipRisk(posture.hipAngle)
    + feetRisk[posture.feetPosition]

\* a variant without the final Math.min(100, ...)
calculatePostureRiskUnclamped(posture, userProfile) ==
    postureRawScore(posture) * ageMultiplier(userProfile.age)
        * hoursMultiplier(userProfile.workHoursPerDay)

\* a variant whose highest neck band carries 5 instead of 25
calculatePostureRiskNeckSlip(posture, userProfile) ==
    Min(10000,
        (postureRawScore(posture)
            - (IF Abs(posture.neckAngle) > 45 THEN 20 ELSE 0))
        * ageMultiplier(userProfile.age)
        * hoursMultiplier(userProfile.workHoursPerDay))

\* result in hundredths of a point
calculatePostureRisk(posture, userProfile) ==
    Min(10000,
        postureRawScore(posture) * ageMultiplier(userProfile.age)
            * hoursMultiplier(userProfile.workHoursPerDay))

----------------------------------------------------------------------------
(* calculateWorkspaceRisk *)

lightingRisk == [excellent |-> 0, good |-> 3, fair |-> 8, poor |-> 15]

noiseRisk ==
    ("quiet" :> 0) @@ ("moderate" :> 3) @@ ("loud" :> 8) @@ ("very-loud" :> 12)

\* |deskHeight - height * 0.45| in hundredths of a centimetre
deskHeightDeviation(workspace, userProfile) ==
    Abs(workspace.deskHeight * 100 - userProfile.height * 45)

workspaceRawScore(workspace, userProfile) ==
    (IF deskHeightDeviation(workspace, userProfile) > 1000 THEN 15
     ELSE IF deskHeightDeviation(workspace, userProfile) > 500 THEN 8
     ELSE 0)
    + (IF workspace.monitorDistance < 40 \/ workspace.monitorDistance > 80 THEN 12
       ELSE IF workspace.monitorDistance < 50 \/ workspace.monitorDistance > 70 THEN 6
       ELSE 0)
    + (IF workspace.monitorHeight > 15 THEN 10
       ELSE IF workspace.monitorHeight > 5 THEN 5
       ELSE IF workspace.monitorHeight < -10 THEN 8
       ELSE 0)
    + (IF workspace.keyboardPosition = "desktop" THEN 8 ELSE 0)
    + (IF workspace.mousePosition = "desktop" THEN 6 ELSE 0)
    + (IF ~workspace.footSupport THEN 8 ELSE 0)
    + (IF ~workspace.lumbarSupport THEN 15 ELSE 0)
    + (IF ~workspace.armrestSupport THEN 10 ELSE 0)
    + lightingRisk[workspace.lightingQuality]
    + noiseRisk[workspace.noiseLevel]

\* a variant that forgets the penalty for missing lumbar support
calculateWorkspaceRiskNoLumbar(workspace, userProfile) ==
    Min(10000, 100 * (workspaceRawScore(workspace, userProfile)
                        - (IF ~workspace.lumbarSupport THEN 15 ELSE 0)))

\* result in hundredths of a point
calculateWorkspaceRisk(workspace, userProfile) ==
    Min(10000, 100 * workspaceRawScore(workspace, userProfile))

----------------------------------------------------------------------------
(* calculateMovementRisk; frequencies in tenths *)

movementRawScore(movement) ==
    (IF movement.screenBreakFrequency < 10 THEN 20
     ELSE IF movement.screenBreakFrequency < 20 THEN 10
     ELSE 0)
    + (IF movement.stretchingFrequency < 20 THEN 15
       ELSE IF movement.stretchingFrequency < 30 THEN 8
       ELSE 0)
    + (IF movement.walkingFrequency < 5 THEN 18
       ELSE IF movement.walkingFrequency < 10 THEN 10
       ELSE 0)
    + (IF movement.postureChanges < 10 THEN 12
       ELSE IF movement.postureChanges < 20 THEN 6
       ELSE 0)
    + (IF movement.repetitiveMotions.typing > 300 THEN 10
       ELSE IF movement.repetitiveMotions.typing > 400 THEN 15
       ELSE 0)
    + (IF movement.repetitiveMotions.mouseClicks > 100 THEN 8
       ELSE IF movement.repetitiveMotions.mouseClicks > 150 THEN 12
       ELSE 0)
    + (IF movement.repetitiveMotions.reachingMovements > 20 THEN 10
       ELSE IF movement.repetitiveMotions.reachingMovements > 30 THEN 15
       ELSE 0)

\* result in hundredths of a point
calculateMovementRisk(movement) == Min(10000, 100 * movementRawScore(movement))

----------------------------------------------------------------------------
(* calculateSymptomsRisk *)

\* a variant with the weights of 'mild' and 'moderate' exchanged
severityScoresSlip == [none |-> 0, mild |-> 2, moderate |-> 1, severe |-> 3]

severityScores == [none |-> 0, mild |-> 1, moderate |-> 2, severe |-> 3]

\* the frequency weights 0, 0.5, 1, 2, 3, doubled
frequencyScores == [never |-> 0, rarely |-> 1, sometimes |-> 2, often |-> 4, always |-> 6]

criticalAreas == {"neck", "back", "wrist"}

RECURSIVE SumOver(_, _)
\* the accumulation of a forEach loop: the sum of f[symptoms[i]] over the list
SumOver(f, n) == IF n = 0 THEN 0 ELSE f[n] + SumOver(f, n - 1)

\* The product of line 239 is evaluated in IEEE doubles, where 0.3 lies just
\* below 3/10.  These are the sums <<symptoms.length, riskScore,
\* severityMultiplier, 2 * frequencyMultiplier>>, for up to four symptoms, whose
\* exact product ends in .5 while the double product falls just short of it, so
\* that Math.round gives the lower integer.
doubleProductFallsShort ==
    {<<1, 10, 1, 6>>,
     <<2, 10, 2, 12>>, <<2, 20, 5, 12>>,
     <<3, 15, 3, 8>>, <<3, 15, 3, 16>>, <<3, 15, 4, 18>>, <<3, 15, 6, 11>>,
     <<3, 15, 8, 10>>, <<3, 15, 8, 18>>, <<3, 20, 3, 11>>, <<3, 20, 3, 13>>,
     <<3, 20, 9, 11>>, <<3, 25, 3, 8>>, <<3, 25, 6, 3>>, <<3, 25, 6, 11>>,
     <<3, 25, 8, 10>>, <<3, 30, 0, 11>>, <<3, 30, 3, 18>>, <<3, 30, 4, 3>>,
     <<3, 30, 4, 5>>, <<3, 30, 4, 11>>, <<3, 30, 4, 13>>, <<3, 30, 8, 1>>,
     <<3, 30, 8, 3>>, <<3, 30, 8, 5>>,
     <<4, 20, 10, 24>>, <<4, 25, 8, 4>>, <<4, 30, 4, 24>>, <<4, 40, 1, 24>>,
     <<4, 40, 4, 14>>, <<4, 40, 6, 4>>}

\* result in hundredths of a point
calculateSymptomsRisk(symptoms) ==
    IF Len(symptoms) = 0 THEN 0
    ELSE
      LET n == Len(symptoms)
          riskScore == SumOver([i \in 1..n |->
                          5 + (IF symptoms[i].type \in criticalAreas THEN 5 ELSE 0)], n)
          severityMultiplier == SumOver([i \in 1..n |->
                          severityScores[symptoms[i].severity]], n)
          frequencyMultiplier2 == SumOver([i \in 1..n |->
                          frequencyScores[symptoms[i].frequency]], n)
          \* riskScore * (1 + severityMultiplier/n * 0.5)
          \*           * (1 + frequencyMultiplier/n * 0.3)
          num == riskScore * (2 * n + severityMultiplier)
                           * (20 * n + 3 * frequencyMultiplier2)
          den == 40 * n * n
          short == IF <<n, riskScore, severityMultiplier, frequencyMultiplier2>>
                        \in doubleProductFallsShort THEN 1 ELSE 0
      IN  100 * Min(100, MathRound(num, den) - short)

----------------------------------------------------------------------------
(* calculateOverallRiskScore and getRiskLevel *)

\* the weighted sum, in 1/10000 of a point
weightedScore(in) ==
    calculatePostureRisk(in.posture, in.userProfile) * 30
    + calculateWorkspaceRisk(in.workspace, in.userProfile) * 25
    + calculateMovementRisk(in.movement) * 25
    + calculateSymptomsRisk(in.symptoms) * 20

\* result in hundredths of a point (always a whole number of points)
calculateOverallRiskScore(in) ==
    100 * Min(100, Max(0, MathRound(weightedScore(in), 10000)))

\* a variant whose bands include their upper bound
getRiskLevelInclusive(score) ==
    IF score <= 2500 THEN "low"
    ELSE IF score <= 5000 THEN "moderate"
    ELSE IF score <= 7500 THEN "high"
    ELSE "critical"

\* score in hundredths of a point
getRiskLevel(score) ==
    IF score < 2500 THEN "low"
    ELSE IF score < 5000 THEN "moderate"
    ELSE IF score < 7500 THEN "high"
    ELSE "critical"

----------------------------------------------------------------------------
(* generateRiskFactors *)

\* the factors in the order the function pushes them, before the final sort
\* a variant whose severity is 'high' from 10 hours on
timeFactorHighFromTen(workHoursPerDay) ==
    [category |-> "time", name |-> "Extended Work Hours",
     severity |-> IF workHoursPerDay >= 10 THEN "high" ELSE "moderate",
     score |-> Min(10000, (workHoursPerDay - 8) * 1500)]

\* the factor pushed when workHoursPerDay > 8
timeFactor(workHoursPerDay) ==
    [category |-> "time", name |-> "Extended Work Hours",
     severity |-> IF workHoursPerDay > 10 THEN "high" ELSE "moderate",
     score |-> Min(10000, (workHoursPerDay - 8) * 1500)]

pushedRiskFactors(in) ==
    LET postureScore == calculatePostureRisk(in.posture, in.userProfile)
        workspaceScore == calculateWorkspaceRisk(in.workspace, in.userProfile)
        movementScore == calculateMovementRisk(in.movement)
        symptomsScore == calculateSymptomsRisk(in.symptoms)
        hours == in.userProfile.workHoursPerDay
    IN  (IF postureScore > 2500
         THEN <<[category |-> "posture", name |-> "Poor Posture Alignment",
                 severity |-> getRiskLevel(postureScore), score |-> postureScore]>>
         ELSE <<>>)
        \o (IF workspaceScore > 2500
            THEN <<[category |-> "equipment", name |-> "Suboptimal Workspace Setup",
                    severity |-> getRiskLevel(workspaceScore), score |-> workspaceScore]>>
            ELSE <<>>)
        \o (IF movementScore > 2500
            THEN <<[category |-> "movement", name |-> "Insufficient Movement Patterns",
                    severity |-> getRiskLevel(movementScore), score |-> movementScore]>>
            ELSE <<>>)
        \o (IF hours > 8
            THEN <<timeFactor(hours)>>
            ELSE <<>>)
        \o (IF symptomsScore > 0
            THEN <<[category |-> "posture", name |-> "Existing Discomfort/Pain",
                    severity |-> getRiskLevel(symptomsScore), score |-> symptomsScore]>>
            ELSE <<>>)

\* the comparator (a, b) => b.score - a.score
byScoreDescending(a, b) == b.score - a.score

\* a variant that returns the factors as pushed, without sorting them
generateRiskFactorsUnsorted(in) == pushedRiskFactors(in)

\* a variant whose sort leaves equal scores in the reverse of their pushed order
generateRiskFactorsTiesReversed(in) ==
    LET pushed == pushedRiskFactors(in)
        reversed == [i \in DOMAIN pushed |-> pushed[Len(pushed) + 1 - i]]
    IN  ArraySort(reversed, byScoreDescending)

generateRiskFactors(in) == ArraySort(pushedRiskFactors(in), byScoreDescending)

----------------------------------------------------------------------------
(* identifyPriorityAreas and performRiskAnalysis *)

\* a variant that lets factors of every severity through
isOfAnySeverity(factor) == factor.severity \in {"low", "moderate", "high", "critical"}

isHighOrCritical(factor) == factor.severity = "critical" \/ factor.severity = "high"

\* a variant that does not look at the severity
isDiscomfort(f) == f.category = "posture" /\ f.name = "Existing Discomfort/Pain"

isCriticalDiscomfort(f) ==
    \* f.name.includes('Discomfort')
    /\ f.category = "posture"
    /\ f.name = "Existing Discomfort/Pain"
    /\ f.severity = "critical"

\* a variant without slice(0, 3) and without the final slice(0, 5)
identifyPriorityAreasUncut(factors) ==
    LET sortedFactors == ArraySort(ArrayFilter(factors, isHighOrCritical),
                                   byScoreDescending)
        categories == {sortedFactors[i].category : i \in DOMAIN sortedFactors}
        pick(c, text) == IF c \in categories THEN <<text>> ELSE <<>>
        priorities ==
            pick("posture", "Improve posture alignment and body positioning")
            \o pick("equipment", "Upgrade workspace equipment and setup")
            \o pick("movement", "Increase movement and break frequency")
            \o pick("environment", "Optimize environmental conditions")
            \o pick("time", "Manage work duration and scheduling")
        criticalSymptoms == ArrayFilter(factors, isCriticalDiscomfort)
    IN  IF Len(criticalSymptoms) > 0
        THEN <<"Address existing pain and discomfort immediately">> \o priorities
        ELSE priorities

identifyPriorityAreas(factors) ==
    LET sortedFactors == ArraySort(ArrayFilter(factors, isHighOrCritical),
                                   byScoreDescending)
        top == ArraySlice(sortedFactors, 3)
        categories == {top[i].category : i \in DOMAIN top}
        pick(c, text) == IF c \in categories THEN <<text>> ELSE <<>>
        priorities ==
            pick("posture", "Improve posture alignment and body positioning")
            \o pick("equipment", "Upgrade workspace equipment and setup")
            \o pick("movement", "Increase movement and break frequency")
            \o pick("environment", "Optimize environmental conditions")
            \o pick("time", "Manage work duration and scheduling")
        criticalSymptoms == ArrayFilter(factors, isCriticalDiscomfort)
        withUrgent ==
            IF Len(criticalSymptoms) > 0
            THEN <<"Address existing pain and discomfort immediately">> \o priorities
            ELSE priorities
    IN  ArraySlice(withUrgent, 5)

\* the RiskCalculationInput performRiskAnalysis assembles from the assessment
\* and the profile
riskCalculationInput(in) ==
    [workspace |-> in.workspace, posture |-> in.posture, movement |-> in.movement,
     symptoms |-> in.symptoms,
     userProfile |-> [age |-> in.userProfile.age, height |-> in.userProfile.height,
                      workHoursPerDay |-> in.userProfile.workHoursPerDay]]

performRiskAnalysis(in) ==
    LET calc == riskCalculationInput(in)
        riskScore == calculateOverallRiskScore(calc)
        factors == generateRiskFactors(calc)
    IN  [overallRisk |-> getRiskLevel(riskScore),
         riskScore |-> riskScore,
         factors |-> factors,
         priorityAreas |-> identifyPriorityAreas(factors)]

----------------------------------------------------------------------------
(* Input domains *)

MaxSymptoms == 3

ShoulderPositions == {"relaxed", "elevated", "hunched", "forward"}
BackCurvatures == {"natural", "straight", "slouched", "arched"}
WristPositions == {"neutral", "extended", "flexed", "deviated"}
FeetPositions == {"flat-floor", "footrest", "dangling", "crossed"}
DevicePositions == {"desktop", "tray", "adjustable"}
LightingQualities == {"poor", "fair", "good", "excellent"}
NoiseLevels == {"quiet", "moderate", "loud", "very-loud"}
SymptomTypes == {"neck", "shoulder", "back", "wrist", "eye", "hip", "knee", "foot"}
Severities == {"none", "mild", "moderate", "severe"}
Frequencies == {"never", "rarely", "sometimes", "often", "always"}
RiskLevels == {"low", "moderate", "high", "critical"}

\* numeric fields: one value inside each band and the band edges
NeckAngles == {0, 16, 35, 45, 50, -50}
ElbowAngles == {100, 116, 131}
HipAngles == {100, 111, 79}
Ages == {35, 45, 55}
WorkHours == {6, 8, 9}
DeskHeights == {60, 67, 74, 82}
Heights == {160, 175}
MonitorDistances == {35, 40, 60, 75, 85}
MonitorHeights == {-15, 0, 10, 20}

PostureData ==
    [neckAngle : NeckAngles, shoulderPosition : ShoulderPositions,
     backCurvature : BackCurvatures, elbowAngle : ElbowAngles,
     wristPosition : WristPositions, hipAngle : HipAngles, kneeAngle : {90},
     feetPosition : FeetPositions]

WorkspaceSetup ==
    [deskHeight : DeskHeights, chairHeight : {45}, monitorDistance : MonitorDistances,
     monitorHeight : MonitorHeights, keyboardPosition : {"desktop", "tray"},
     mousePosition : {"desktop", "adjustable"}, footSupport : BOOLEAN,
     lumbarSupport : BOOLEAN, armrestSupport : BOOLEAN,
     lightingQuality : LightingQualities, noiseLevel : NoiseLevels]

MovementPatterns ==
    [screenBreakFrequency : {5, 10, 20}, stretchingFrequency : {10, 20, 30},
     walkingFrequency : {2, 5, 10}, postureChanges : {5, 10, 20},
     repetitiveMotions : [typing : {200, 300, 350, 450}, mouseClicks : {50, 120, 200},
                          reachingMovements : {10, 25, 40}]]

HealthSymptom == [type : SymptomTypes, severity : Severities, frequency : Frequencies]

\* the symptoms that lists of two or more are built from
SymptomSamples ==
    {s \in HealthSymptom :
        /\ s.type \in {"back", "foot"}
        /\ <<s.severity, s.frequency>> \in
              {<<"none", "never">>, <<"mild", "rarely">>, <<"moderate", "sometimes">>,
               <<"severe", "often">>, <<"severe", "always">>}}

SymptomLists ==
    {<<>>} \cup {<<s>> : s \in HealthSymptom}
    \cup UNION {[1..k -> SymptomSamples] : k \in 2..MaxSymptoms}

NeutralPosture ==
    [neckAngle |-> 0, shoulderPosition |-> "relaxed", backCurvature |-> "natural",
     elbowAngle |-> 100, wristPosition |-> "neutral", hipAngle |-> 100,
     kneeAngle |-> 90, feetPosition |-> "flat-floor"]

NeutralWorkspace ==
    [deskHeight |-> 74, chairHeight |-> 45, monitorDistance |-> 60, monitorHeight |-> 0,
     keyboardPosition |-> "tray", mousePosition |-> "adjustable", footSupport |-> TRUE,
     lumbarSupport |-> TRUE, armrestSupport |-> TRUE, lightingQuality |-> "excellent",
     noiseLevel |-> "quiet"]

NeutralMovement ==
    [screenBreakFrequency |-> 20, stretchingFrequency |-> 30, walkingFrequency |-> 10,
     postureChanges |-> 20,
     repetitiveMotions |-> [typing |-> 200, mouseClicks |-> 50, reachingMovements |-> 10]]

NeutralProfile == [age |-> 35, height |-> 175, workHoursPerDay |-> 6]

NeutralInput ==
    [posture |-> NeutralPosture, workspace |-> NeutralWorkspace,
     movement |-> NeutralMovement, symptoms |-> <<>>, userProfile |-> NeutralProfile]

\* every posture, under every combination of the two multipliers
PostureSweep ==
    [posture : PostureData, workspace : {NeutralWorkspace}, movement : {NeutralMovement},
     symptoms : {<<>>},
     userProfile : [age : Ages, height : {175}, workHoursPerDay : WorkHours]]

WorkspaceSweep ==
    [posture : {NeutralPosture}, workspace : WorkspaceSetup, movement : {NeutralMovement},
     symptoms : {<<>>},
     userProfile : [age : {35}, height : Heights, workHoursPerDay : {6}]]

MovementSweep ==
    [posture : {NeutralPosture}, workspace : {NeutralWorkspace},
     movement : MovementPatterns, symptoms : {<<>>}, userProfile : {NeutralProfile}]

SymptomSweep ==
    [posture : {NeutralPosture}, workspace : {NeutralWorkspace},
     movement : {NeutralMovement}, symptoms : SymptomLists,
     userProfile : {NeutralProfile}]

NoCall == [fn |-> "none"]

GenIdle == [pc |-> "idle"]

\* the arrays of the routes, as the modules declare them: all empty
NoStores ==
    [users |-> <<>>, assessments |-> <<>>, recommendationSets |-> <<>>,
     healthMetrics |-> <<>>, progressTracking |-> <<>>, reports |-> <<>>]

\* a few inputs of every part, combined freely
PostureSamples ==
    {NeutralPosture,
     [NeutralPosture EXCEPT !.neckAngle = 16, !.shoulderPosition = "elevated",
                            !.backCurvature = "straight"],
     [NeutralPosture EXCEPT !.neckAngle = 35, !.shoulderPosition = "hunched",
                            !.backCurvature = "slouched"],
     [NeutralPosture EXCEPT !.neckAngle = 50, !.shoulderPosition = "hunched",
                            !.backCurvature = "slouched", !.elbowAngle = 131,
                            !.wristPosition = "deviated", !.hipAngle = 79,
                            !.feetPosition = "dangling"]}

WorkspaceSamples ==
    {NeutralWorkspace,
     [NeutralWorkspace EXCEPT !.lumbarSupport = FALSE, !.footSupport = FALSE,
                              !.lightingQuality = "good"],
     [NeutralWorkspace EXCEPT !.lumbarSupport = FALSE, !.armrestSupport = FALSE,
                              !.keyboardPosition = "desktop", !.lightingQuality = "fair"],
     [NeutralWorkspace EXCEPT !.deskHeight = 60, !.monitorDistance = 35,
                              !.monitorHeight = 20, !.keyboardPosition = "desktop",
                              !.mousePosition = "desktop", !.footSupport = FALSE,
                              !.lumbarSupport = FALSE, !.armrestSupport = FALSE,
                              !.lightingQuality = "poor", !.noiseLevel = "very-loud"]}

MovementSamples ==
    {NeutralMovement,
     [NeutralMovement EXCEPT !.screenBreakFrequency = 5, !.stretchingFrequency = 20],
     [NeutralMovement EXCEPT !.screenBreakFrequency = 10, !.stretchingFrequency = 10,
                             !.walkingFrequency = 5],
     [screenBreakFrequency |-> 5, stretchingFrequency |-> 10, walkingFrequency |-> 2,
      postureChanges |-> 5,
      repetitiveMotions |-> [typing |-> 450, mouseClicks |-> 200,
                             reachingMovements |-> 40]]}

SevereBack == [type |-> "back", severity |-> "severe", frequency |-> "always"]

SymptomListSamples ==
    {<<>>,
     <<[type |-> "foot", severity |-> "mild", frequency |-> "rarely"]>>,
     <<[type |-> "eye", severity |-> "moderate", frequency |-> "often"]>>,
     <<SevereBack>>,
     <<SevereBack, [type |-> "neck", severity |-> "severe", frequency |-> "often"]>>,
     <<SevereBack, SevereBack, SevereBack>>}

JointInputs ==
    [posture : PostureSamples, workspace : WorkspaceSamples, movement : MovementSamples,
     symptoms : SymptomListSamples,
     userProfile : [age : Ages, height : {175}, workHoursPerDay : {6, 9, 10, 11, 16}]]

----------------------------------------------------------------------------
(* The scoring functions, called on one input *)

\* calculateOverallRiskScore(input): the four sub-model calls it makes and its
\* own result
CallCalculateOverallRiskScore ==
    /\ ret.fn = "none"
    /\ ret' = [fn |-> "calculateOverallRiskScore",
               postureScore |-> calculatePostureRisk(input.posture, input.userProfile),
               workspaceScore |-> calculateWorkspaceRisk(input.workspace, input.userProfile),
               movementScore |-> calculateMovementRisk(input.movement),
               symptomsScore |-> calculateSymptomsRisk(input.symptoms),
               value |-> calculateOverallRiskScore(input)]
    /\ UNCHANGED <<input, recs, history, gen, stores, requests, now, started>>

InitScore ==
    /\ input \in PostureSweep \cup WorkspaceSweep \cup MovementSweep
                    \cup SymptomSweep \cup JointInputs
    /\ ret = NoCall
    /\ recs = <<>>
    /\ history = <<>>
    /\ gen = GenIdle
    /\ stores = NoStores
    /\ requests = <<>>
    /\ now = 0
    /\ started = 0

NextScore == CallCalculateOverallRiskScore

SpecScore == InitScore /\ [][NextScore]_vars

\* C1: for every valid input, the posture, workspace, movement and symptom
\* scores and the overall score all lie in [0, 100] points.
C1_ScoresInRange ==
    ret.fn = "calculateOverallRiskScore" =>
        /\ ret.postureScore \in 0..10000
        /\ ret.workspaceScore \in 0..10000
        /\ ret.movementScore \in 0..10000
        /\ ret.symptomsScore \in 0..10000
        /\ ret.value \in 0..10000

\* a posture whose penalties times the multipliers exceed 100 points has been
\* scored, and so has a symptom list whose scaled score exceeds 100
C1_Witness ==
    /\ ret.fn = "calculateOverallRiskScore"
    /\ calculatePostureRiskUnclamped(input.posture, input.userProfile) > 10000
    /\ ret.postureScore = 10000
    /\ Len(input.symptoms) = 3
    /\ ret.symptomsScore = 10000

----------------------------------------------------------------------------
(* getRiskLevel, called on one score *)

\* every half point from 0 to 100 points, and the scores next to the band
\* edges, in hundredths
Scores ==
    {50 * k : k \in 0..200}
    \cup {2499, 2501, 4999, 5001, 7499, 7501}

CallGetRiskLevel ==
    \E score \in Scores :
        /\ ret' = [fn |-> "getRiskLevel", score |-> score, value |-> getRiskLevel(score)]
        /\ UNCHANGED <<input, recs, history, gen, stores, requests, now, started>>

InitLevel ==
    /\ input = NeutralInput
    /\ ret = NoCall
    /\ recs = <<>>
    /\ history = <<>>
    /\ gen = GenIdle
    /\ stores = NoStores
    /\ requests = <<>>
    /\ now = 0
    /\ started = 0

NextLevel == CallGetRiskLevel

SpecLevel == InitLevel /\ [][NextLevel]_vars

levelRank == [low |-> 1, moderate |-> 2, high |-> 3, critical |-> 4]

\* C3: getRiskLevel gives 'low' below 25, 'moderate' from 25 to below 50, 'high'
\* from 50 to below 75 and 'critical' from 75 on, and a higher score never
\* gets a lower level.
C3_RiskLevelBands ==
    [][ret'.fn = "getRiskLevel" =>
          /\ (ret'.value = "low") = (ret'.score < 2500)
          /\ (ret'.value = "moderate") = (2500 <= ret'.score /\ ret'.score < 5000)
          /\ (ret'.value = "high") = (5000 <= ret'.score /\ ret'.score < 7500)
          /\ (ret'.value = "critical") = (ret'.score >= 7500)
          /\ (ret.fn = "getRiskLevel" /\ ret'.score >= ret.score
                => levelRank[ret'.value] >= levelRank[ret.value])]_vars

\* the level of exactly 25 points has been computed right after that of 24
C3_Witness ==
    /\ ret.fn = "getRiskLevel"
    /\ ret.score = 2500
    /\ ret.value = "moderate"

----------------------------------------------------------------------------
(* performRiskAnalysis and generateRiskFactors, called on one assessment *)

\* The end-to-end scenario: deskHeight 74, chairHeight 45, monitorDistance 60, no
\* lumbar and no foot support, neckAngle 35, hunched, slouched, one screen break
\* every two hours, one severe/always back symptom, age 45, height 175, 9 work
\* hours.  Every other field takes its best and its worst value.
ScenarioInputs ==
    [posture :
        [neckAngle : {35}, shoulderPosition : {"hunched"}, backCurvature : {"slouched"},
         elbowAngle : {100, 131}, wristPosition : {"neutral", "deviated"},
         hipAngle : {100, 79}, kneeAngle : {90},
         feetPosition : {"flat-floor", "dangling"}],
     workspace :
        [deskHeight : {74}, chairHeight : {45}, monitorDistance : {60},
         monitorHeight : {0, 20}, keyboardPosition : {"tray", "desktop"},
         mousePosition : {"adjustable", "desktop"}, footSupport : {FALSE},
         lumbarSupport : {FALSE}, armrestSupport : BOOLEAN,
         lightingQuality : {"excellent", "good", "poor"},
         noiseLevel : {"quiet", "very-loud"}],
     movement :
        [screenBreakFrequency : {5}, stretchingFrequency : {30, 10},
         walkingFrequency : {10, 2}, postureChanges : {20, 5},
         repetitiveMotions : [typing : {200, 450}, mouseClicks : {50, 200},
                              reachingMovements : {10, 40}]],
     symptoms : {<<SevereBack>>},
     userProfile : {[age |-> 45, height |-> 175, workHoursPerDay |-> 9]}]

CallPerformRiskAnalysis ==
    /\ ret.fn = "none"
    /\ ret' = [fn |-> "performRiskAnalysis", value |-> performRiskAnalysis(input)]
    /\ UNCHANGED <<input, recs, history, gen, stores, requests, now, started>>

CallGenerateRiskFactors ==
    /\ ret.fn = "none"
    /\ ret' = [fn |-> "generateRiskFactors",
               value |-> generateRiskFactors(riskCalculationInput(input))]
    /\ UNCHANGED <<input, recs, history, gen, stores, requests, now, started>>

Init ==
    /\ input \in JointInputs \cup ScenarioInputs
    /\ ret = NoCall
    /\ recs = <<>>
    /\ history = <<>>
    /\ gen = GenIdle
    /\ stores = NoStores
    /\ requests = <<>>
    /\ now = 0
    /\ started = 0

Next ==
    \/ CallPerformRiskAnalysis
    \/ CallGenerateRiskFactors

Spec == Init /\ [][Next]_vars

\* the factor list a call returned
returnedFactors ==
    IF ret.fn = "performRiskAnalysis" THEN ret.value.factors ELSE ret.value

isDescending(factors) ==
    \A i \in 1..(Len(factors) - 1) : factors[i].score >= factors[i + 1].score

\* C2: the factor list of generateRiskFactors, and RiskAnalysis.factors of
\* performRiskAnalysis, is sorted descending by score.
C2_FactorsSortedDescending ==
    ret.fn \in {"generateRiskFactors", "performRiskAnalysis"} =>
        isDescending(returnedFactors)

\* a list of all five factors was returned whose order differs from the order
\* in which the factors are pushed
C2_Witness ==
    /\ ret.fn = "performRiskAnalysis"
    /\ Len(ret.value.factors) = 5
    /\ ret.value.factors # pushedRiskFactors(riskCalculationInput(input))

hasFactor(factors, category, name) ==
    \E i \in DOMAIN factors :
        factors[i].category = category /\ factors[i].name = name

scenarioAnalysed == ret.fn = "performRiskAnalysis" /\ input \in ScenarioInputs

\* C6 as stated: in the end-to-end scenario, whatever the other fields are, the
\* overall level is 'high' or 'critical' and the factor list holds the posture
\* factor, the equipment factor and the symptom-derived posture-category factor.
C6_ScenarioHighWithEquipment ==
    scenarioAnalysed =>
        /\ ret.value.overallRisk \in {"high", "critical"}
        /\ hasFactor(ret.value.factors, "posture", "Poor Posture Alignment")
        /\ hasFactor(ret.value.factors, "equipment", "Suboptimal Workspace Setup")
        /\ hasFactor(ret.value.factors, "posture", "Existing Discomfort/Pain")

\* a workspace field the scenario leaves open carries a penalty
openWorkspaceFieldPenalised(workspace) ==
    \/ workspace.monitorHeight > 5 \/ workspace.monitorHeight < -10
    \/ workspace.keyboardPosition = "desktop"
    \/ workspace.mousePosition = "desktop"
    \/ ~workspace.armrestSupport
    \/ workspace.lightingQuality # "excellent"
    \/ workspace.noiseLevel # "quiet"

\* C6, amended: in the end-to-end scenario the overall score is at least 46
\* points and the level is 'moderate', 'high' or 'critical'; the factor list
\* holds the posture factor and the symptom-derived posture-category factor,
\* and it holds the equipment factor exactly when one of the workspace fields
\* the scenario leaves open carries a penalty.
C6_ScenarioAmended ==
    scenarioAnalysed =>
        /\ ret.value.riskScore >= 4600
        /\ ret.value.overallRisk \in {"moderate", "high", "critical"}
        /\ hasFactor(ret.value.factors, "posture", "Poor Posture Alignment")
        /\ hasFactor(ret.value.factors, "posture", "Existing Discomfort/Pain")
        /\ hasFactor(ret.value.factors, "equipment", "Suboptimal Workspace Setup")
              = openWorkspaceFieldPenalised(input.workspace)

\* the scenario was analysed with every open field at its best value: the level
\* is 'moderate' and there is no equipment factor
C6_Witness ==
    /\ scenarioAnalysed
    /\ ret.value.overallRisk = "moderate"
    /\ ~openWorkspaceFieldPenalised(input.workspace)
    /\ ~hasFactor(ret.value.factors, "equipment", "Suboptimal Workspace Setup")

----------------------------------------------------------------------------
(* calculatePostureRisk, called again after one posture field has changed *)

PostureFields ==
    {"neckAngle", "shoulderPosition", "backCurvature", "elbowAngle", "wristPosition",
     "hipAngle", "feetPosition"}

\* the values a posture field takes
fieldValues(field) ==
    CASE field = "neckAngle" -> NeckAngles
      [] field = "shoulderPosition" -> ShoulderPositions
      [] field = "backCurvature" -> BackCurvatures
      [] field = "elbowAngle" -> ElbowAngles
      [] field = "wristPosition" -> WristPositions
      [] field = "hipAngle" -> HipAngles
      [] field = "feetPosition" -> FeetPositions

CallCalculatePostureRisk ==
    /\ ret.fn = "none"
    /\ ret' = [fn |-> "calculatePostureRisk",
               value |-> calculatePostureRisk(input.posture, input.userProfile)]
    /\ UNCHANGED <<input, recs, history, gen, stores, requests, now, started>>

\* the caller replaces one field of the posture and scores it again, with the
\* same profile
RescorePosture ==
    /\ ret.fn = "calculatePostureRisk"
    /\ \E field \in PostureFields :
          \E v \in fieldValues(field) \ {input.posture[field]} :
             LET q == [input.posture EXCEPT ![field] = v]
             IN  /\ input' = [input EXCEPT !.posture = q]
                 /\ ret' = [fn |-> "calculatePostureRisk",
                            value |-> calculatePostureRisk(q, input.userProfile)]
    /\ UNCHANGED <<recs, history, gen, stores, requests, now, started>>

InitPosture ==
    /\ input \in PostureSweep
    /\ ret = NoCall
    /\ recs = <<>>
    /\ history = <<>>
    /\ gen = GenIdle
    /\ stores = NoStores
    /\ requests = <<>>
    /\ now = 0
    /\ started = 0

NextPosture ==
    \/ CallCalculatePostureRisk
    \/ RescorePosture

SpecPosture == InitPosture /\ [][NextPosture]_vars

\* the penalty one posture field carries
fieldPenalty(posture, field) ==
    CASE field = "neckAngle" -> neckRisk(posture.neckAngle)
      [] field = "shoulderPosition" -> shoulderRisk[posture.shoulderPosition]
      [] field = "backCurvature" -> backRisk[posture.backCurvature]
      [] field = "elbowAngle" -> elbowRisk(posture.elbowAngle)
      [] field = "wristPosition" -> wristRisk[posture.wristPosition]
      [] field = "hipAngle" -> hipRisk(posture.hipAngle)
      [] field = "feetPosition" -> feetRisk[posture.feetPosition]

\* q is p with one field replaced by a value of a larger penalty
oneFieldWorse(p, q) ==
    \E field \in PostureFields :
        /\ fieldPenalty(q, field) > fieldPenalty(p, field)
        /\ \A other \in PostureFields \ {field} : q[other] = p[other]

BadPosture ==
    [NeutralPosture EXCEPT !.neckAngle = 50, !.shoulderPosition = "hunched",
                           !.backCurvature = "slouched"]

\* C10: with age and work hours fixed, replacing one posture field by a value
\* of a larger penalty never lowers the posture score; and neckAngle 50, hunched,
\* slouched at age 55 and 9 work hours scores strictly more than the neutral
\* posture with the same profile.
C10_PostureMonotonic ==
    [][/\ (/\ ret.fn = "calculatePostureRisk"
           /\ ret'.fn = "calculatePostureRisk"
           /\ input'.userProfile = input.userProfile
           /\ oneFieldWorse(input.posture, input'.posture))
          => ret'.value >= ret.value
       /\ (/\ ret'.fn = "calculatePostureRisk"
           /\ input'.posture = BadPosture
           /\ input'.userProfile.age = 55
           /\ input'.userProfile.workHoursPerDay = 9)
          => ret'.value > calculatePostureRisk(NeutralPosture, input'.userProfile)]_vars

\* the bad posture of the example was scored at age 55 and 9 hours
C10_Witness ==
    /\ ret.fn = "calculatePostureRisk"
    /\ input.posture = BadPosture
    /\ input.userProfile.age = 55
    /\ input.userProfile.workHoursPerDay = 9
    /\ ret.value = 10000

----------------------------------------------------------------------------
(* filterRecommendations and sortRecommendationsByPriority *)

priorityOrder == [critical |-> 4, high |-> 3, medium |-> 2, low |-> 1]

categoryOrder == ("immediate" :> 3) @@ ("short-term" :> 2) @@ ("long-term" :> 1)

costOrder == [free |-> 4, low |-> 3, medium |-> 2, high |-> 1]

\* a variant whose last key compares the costs the other way round
byPriorityCostAscending(a, b) ==
    LET priorityDiff == priorityOrder[b.priority] - priorityOrder[a.priority]
        categoryDiff == categoryOrder[b.category] - categoryOrder[a.category]
    IN  IF priorityDiff # 0 THEN priorityDiff
        ELSE IF categoryDiff # 0 THEN categoryDiff
        ELSE costOrder[a.estimatedCost] - costOrder[b.estimatedCost]

\* the comparator of sortRecommendationsByPriority
byPriority(a, b) ==
    LET priorityDiff == priorityOrder[b.priority] - priorityOrder[a.priority]
        categoryDiff == categoryOrder[b.category] - categoryOrder[a.category]
    IN  IF priorityDiff # 0 THEN priorityDiff
        ELSE IF categoryDiff # 0 THEN categoryDiff
        ELSE costOrder[b.estimatedCost] - costOrder[a.estimatedCost]

\* a variant that sorts a copy made with the duplicates of an element removed
sortRecommendationsDropDuplicates(recommendations) ==
    LET firsts == SelectSeq([i \in DOMAIN recommendations |-> i],
                     LAMBDA i : \A j \in 1..(i - 1) :
                                    recommendations[j] # recommendations[i])
    IN  ArraySort([k \in DOMAIN firsts |-> recommendations[firsts[k]]], byPriority)

\* the array after recommendations.sort(...); the function returns this same
\* array
sortRecommendationsByPriority(recommendations) ==
    ArraySort(recommendations, byPriority)

\* filters.<key> is set and not the empty string
hasFilter(filters, key) == key \in DOMAIN filters /\ filters[key] # ""

\* a variant that keeps a recommendation when any one set filter matches
filterRecommendationsAnyMatch(recommendations, filters) ==
    LET keep(rec) ==
            \/ \A key \in {"category", "priority", "type", "cost", "difficulty"} :
                  ~hasFilter(filters, key)
            \/ hasFilter(filters, "category") /\ rec.category = filters.category
            \/ hasFilter(filters, "priority") /\ rec.priority = filters.priority
            \/ hasFilter(filters, "type") /\ rec.type = filters.type
            \/ hasFilter(filters, "cost") /\ rec.estimatedCost = filters.cost
            \/ hasFilter(filters, "difficulty")
                  /\ rec.implementationDifficulty = filters.difficulty
    IN  ArrayFilter(recommendations, keep)

filterRecommendations(recommendations, filters) ==
    LET keep(rec) ==
            /\ hasFilter(filters, "category") => rec.category = filters.category
            /\ hasFilter(filters, "priority") => rec.priority = filters.priority
            /\ hasFilter(filters, "type") => rec.type = filters.type
            /\ hasFilter(filters, "cost") => rec.estimatedCost = filters.cost
            /\ hasFilter(filters, "difficulty")
                  => rec.implementationDifficulty = filters.difficulty
    IN  ArrayFilter(recommendations, keep)

----------------------------------------------------------------------------
(* calculateRiskTrend; dates in whole days, scores in hundredths of a point *)

byAssessmentDate(a, b) == a.assessmentDate - b.assessmentDate

riskProgression(assessments) ==
    [i \in DOMAIN assessments |->
        [date |-> assessments[i].assessmentDate, score |-> assessments[i].overallScore]]

\* the trend of a total change
trendOf(totalChange) ==
    IF Abs(totalChange) < 500 THEN "stable"
    ELSE IF totalChange < 0 THEN "improving"
    ELSE "declining"

\* a variant that compares the first and last entries of the list as given
calculateRiskTrendUnsorted(assessments) ==
    IF Len(assessments) < 2
    THEN [trend |-> "stable", changeRate |-> [num |-> 0, den |-> 1],
          riskProgression |-> riskProgression(assessments)]
    ELSE
      LET totalChange == assessments[Len(assessments)].overallScore
                            - assessments[1].overallScore
          timeSpan == assessments[Len(assessments)].assessmentDate
                            - assessments[1].assessmentDate
      IN  [trend |-> trendOf(totalChange),
           changeRate |-> IF timeSpan > 0
                          THEN [num |-> Abs(totalChange), den |-> timeSpan]
                          ELSE [num |-> 0, den |-> 1],
           riskProgression |-> riskProgression(assessments)]

\* the array after the call: sorted in place by date when it has 2 or more entries
assessmentsAfterRiskTrend(assessments) ==
    IF Len(assessments) < 2 THEN assessments
    ELSE ArraySort(assessments, byAssessmentDate)

\* the result; changeRate is the fraction num/den, in hundredths of a point per day
calculateRiskTrend(assessments) ==
    IF Len(assessments) < 2
    THEN [trend |-> "stable", changeRate |-> [num |-> 0, den |-> 1],
          riskProgression |-> riskProgression(assessments)]
    ELSE
      LET sorted == ArraySort(assessments, byAssessmentDate)
          first == sorted[1]
          last == sorted[Len(sorted)]
          totalChange == last.overallScore - first.overallScore
          timeSpan == last.assessmentDate - first.assessmentDate
      IN  [trend |-> trendOf(totalChange),
           \* Math.abs(timeSpan > 0 ? totalChange / timeSpan : 0)
           changeRate |-> IF timeSpan > 0
                          THEN [num |-> Abs(totalChange), den |-> timeSpan]
                          ELSE [num |-> 0, den |-> 1],
           riskProgression |-> riskProgression(sorted)]

----------------------------------------------------------------------------
(* GET /api/risk-analysis/trends: the trend over one user's assessments *)

\* let trend = 'stable'; if (change < -5) 'improving'; else if (change > 5)
\* 'declining'
trendOfChange(change) ==
    IF change < -500 THEN "improving"
    ELSE IF change > 500 THEN "declining"
    ELSE "stable"

\* the response for the user's assessments as stored and a cutoff date; the
\* handler sorts a copy by date and keeps the entries from the cutoff on
GET_TRENDS(stored, cutoffDate) ==
    LET userAssessments == ArraySort(stored, byAssessmentDate)
        inWindow(a) == a.assessmentDate >= cutoffDate
        recentAssessments == ArrayFilter(userAssessments, inWindow)
        n == Len(recentAssessments)
    IN  IF Len(userAssessments) = 0 THEN [status |-> 404]
        \* recentAssessments[-1].riskLevel throws, the catch answers 500
        ELSE IF n = 0 THEN [status |-> 500]
        ELSE [status |-> 200,
              assessmentCount |-> n,
              currentScore |-> recentAssessments[n].overallScore,
              trend |-> IF n >= 2
                        THEN trendOfChange(recentAssessments[n].overallScore
                                           - recentAssessments[1].overallScore)
                        ELSE "stable"]

----------------------------------------------------------------------------
(* The list utilities, called on an array the caller holds *)

MaxRecs == 3

MaxAssessments == 3

MaxDay == 2

Rec(id, priority, category, cost, type, difficulty) ==
    [id |-> id, priority |-> priority, category |-> category, estimatedCost |-> cost,
     type |-> type, implementationDifficulty |-> difficulty]

\* recommendations with every priority, category and cost, some of them equal
\* on all three sort keys
RecSamples ==
    {Rec(1, "critical", "immediate", "free", "posture", "easy"),
     Rec(2, "critical", "immediate", "free", "movement", "easy"),
     Rec(3, "critical", "short-term", "low", "equipment", "medium"),
     Rec(4, "high", "immediate", "free", "posture", "easy"),
     Rec(5, "high", "immediate", "high", "equipment", "hard"),
     Rec(6, "high", "long-term", "medium", "environment", "medium"),
     Rec(7, "medium", "immediate", "free", "behavior", "easy"),
     Rec(8, "medium", "short-term", "low", "equipment", "easy"),
     Rec(9, "medium", "short-term", "low", "environment", "easy"),
     Rec(10, "low", "long-term", "high", "equipment", "hard"),
     Rec(11, "low", "immediate", "free", "movement", "easy"),
     Rec(12, "low", "long-term", "medium", "behavior", "medium"),
     Rec(13, "high", "immediate", "free", "behavior", "easy")}

RecLists == UNION {[1..k -> RecSamples] : k \in 0..MaxRecs}

NoFilters == [key \in {} |-> ""]

FilterSamples ==
    {NoFilters,
     [category |-> "immediate"],
     [category |-> "", priority |-> "low"],
     [priority |-> "high", type |-> "equipment"],
     [cost |-> "free", difficulty |-> "easy"]}

\* scores 60, 80, 84 and 85 points
TrendScores == {6000, 8000, 8400, 8500}

AssessmentSamples == [assessmentDate : 0..MaxDay, overallScore : TrendScores]

Histories == UNION {[1..k -> AssessmentSamples] : k \in 0..MaxAssessments}

\* recommendations.sort(...) sorts the caller's array and returns it
CallSortRecommendationsByPriority ==
    /\ ret.fn = "none"
    /\ recs' = sortRecommendationsByPriority(recs)
    /\ ret' = [fn |-> "sortRecommendationsByPriority", arg |-> recs,
               value |-> sortRecommendationsByPriority(recs), sameArray |-> TRUE]
    /\ UNCHANGED <<input, history, gen, stores, requests, now, started>>

CallFilterRecommendations ==
    /\ ret.fn = "none"
    /\ \E filters \in FilterSamples :
          ret' = [fn |-> "filterRecommendations", arg |-> recs, filters |-> filters,
                  value |-> filterRecommendations(recs, filters), sameArray |-> FALSE]
    /\ UNCHANGED <<input, recs, history, gen, stores, requests, now, started>>

\* sortRecommendationsByPriority(filterRecommendations(recs, {})): the sort acts
\* on the array filter created
CallRankFiltered ==
    /\ ret.fn = "none"
    /\ ret' = [fn |-> "rankFiltered", arg |-> recs,
               value |-> sortRecommendationsByPriority(
                             filterRecommendations(recs, NoFilters)),
               sameArray |-> FALSE]
    /\ UNCHANGED <<input, recs, history, gen, stores, requests, now, started>>

\* assessments.sort(...) sorts the caller's array; the result is a new object
CallCalculateRiskTrend ==
    /\ ret.fn = "none"
    /\ history' = assessmentsAfterRiskTrend(history)
    /\ ret' = [fn |-> "calculateRiskTrend", arg |-> history,
               value |-> calculateRiskTrend(history), sameArray |-> FALSE]
    /\ UNCHANGED <<input, recs, gen, stores, requests, now, started>>

\* the trends request: the store is read, never written
CallGetTrends ==
    /\ ret.fn = "none"
    /\ \E cutoffDate \in 0..MaxDay :
          ret' = [fn |-> "GET_TRENDS", arg |-> history, cutoffDate |-> cutoffDate,
                  value |-> GET_TRENDS(history, cutoffDate), sameArray |-> FALSE]
    /\ UNCHANGED <<input, recs, history, gen, stores, requests, now, started>>

InitLists ==
    /\ input = NeutralInput
    /\ ret = NoCall
    /\ gen = GenIdle
    /\ stores = NoStores
    /\ requests = <<>>
    /\ now = 0
    /\ started = 0
    /\ \/ recs \in RecLists /\ history = <<>>
       \/ recs = <<>> /\ history \in Histories

NextLists ==
    \/ CallSortRecommendationsByPriority
    \/ CallFilterRecommendations
    \/ CallRankFiltered
    \/ CallCalculateRiskTrend
    \/ CallGetTrends

SpecLists == InitLists /\ [][NextLists]_vars

\* C7: sortRecommendationsByPriority and calculateRiskTrend leave the array
\* passed to them unchanged (the same elements in the same order after the
\* call).
C7_ArgumentsUnchanged ==
    [][ret'.fn \in {"sortRecommendationsByPriority", "calculateRiskTrend"} =>
          /\ recs' = recs
          /\ history' = history]_vars

\* the number of times x occurs in the list
occurrences(list, x) == Cardinality({i \in DOMAIN list : list[i] = x})

isPermutation(a, b) ==
    /\ Len(a) = Len(b)
    /\ \A i \in DOMAIN a : occurrences(a, a[i]) = occurrences(b, a[i])

\* C8: sortRecommendationsByPriority(filterRecommendations(list, {})) is a
\* permutation of list: the same elements with the same multiplicities.
C8_RankFilteredIsPermutation ==
    ret.fn = "rankFiltered" => isPermutation(ret.value, ret.arg)

\* a list holding one recommendation twice, and not in rank order, was ranked
C8_Witness ==
    /\ ret.fn = "rankFiltered"
    /\ Len(ret.arg) = 3
    /\ ret.arg[1] = ret.arg[3]
    /\ ret.arg[1] # ret.arg[2]
    /\ ret.value # ret.arg

\* the earliest-dated entry, the first of them in the list when several share
\* the date
earliestIndex(a) ==
    CHOOSE i \in DOMAIN a :
        \A j \in DOMAIN a :
            \/ a[i].assessmentDate < a[j].assessmentDate
            \/ (a[i].assessmentDate = a[j].assessmentDate /\ i <= j)

\* the latest-dated entry, the last of them in the list when several share the
\* date
latestIndex(a) ==
    CHOOSE i \in DOMAIN a :
        \A j \in DOMAIN a :
            \/ a[i].assessmentDate > a[j].assessmentDate
            \/ (a[i].assessmentDate = a[j].assessmentDate /\ i >= j)

\* C9: with fewer than 2 assessments the trend is 'stable' and changeRate 0;
\* with 2 or more, d being the latest-dated score minus the earliest-dated one,
\* the trend is 'stable' iff |d| < 5, 'improving' iff d <= -5, 'declining' iff
\* d >= 5, and changeRate is 0 when d = 0.
C9_TrendClassification ==
    ret.fn = "calculateRiskTrend" =>
        LET a == ret.arg
            r == ret.value
        IN  IF Len(a) < 2
            THEN r.trend = "stable" /\ r.changeRate.num = 0
            ELSE
              LET d == a[latestIndex(a)].overallScore
                          - a[earliestIndex(a)].overallScore
              IN  /\ (r.trend = "stable") = (Abs(d) < 500)
                  /\ (r.trend = "improving") = (d <= -500)
                  /\ (r.trend = "declining") = (d >= 500)
                  /\ (d = 0 => r.changeRate.num = 0)

\* three assessments given out of date order, the earliest scoring 85 and the
\* latest 80, were classified 'improving'
C9_Witness ==
    /\ ret.fn = "calculateRiskTrend"
    /\ Len(ret.arg) = 3
    /\ ret.arg[1].assessmentDate > ret.arg[3].assessmentDate
    /\ ret.arg[3].assessmentDate > ret.arg[2].assessmentDate
    /\ ret.arg[2].overallScore = 8500
    /\ ret.arg[1].overallScore = 8000
    /\ ret.value.trend = "improving"

----------------------------------------------------------------------------
(* generateTemplateRecommendations *)

Template(title, category, priority, type, cost, difficulty) ==
    [title |-> title, category |-> category, priority |-> priority, type |-> type,
     estimatedCost |-> cost, implementationDifficulty |-> difficulty]

PostureTemplate ==
    Template("Improve Posture Alignment", "immediate", "high", "posture", "free", "easy")

MovementTemplate ==
    Template("Increase Movement and Breaks", "immediate", "high", "movement", "free",
             "easy")

EquipmentTemplate ==
    Template("Workspace Equipment Optimization", "short-term", "high", "equipment",
             "low", "medium")

BreakRuleTemplate ==
    Template("Implement 20-20-20 Rule", "immediate", "medium", "behavior", "free", "easy")

LumbarTemplate ==
    Template("Add Lumbar Support", "short-term", "medium", "equipment", "low", "easy")

LightingTemplate ==
    Template("Improve Lighting Conditions", "short-term", "medium", "environment",
             "low", "easy")

\* what the forEach body pushes for one high or critical factor
templatesForFactor(factor) ==
    (IF factor.category = "posture" THEN <<PostureTemplate>> ELSE <<>>)
    \o (IF factor.category = "movement" THEN <<MovementTemplate>> ELSE <<>>)
    \o (IF factor.category = "equipment" THEN <<EquipmentTemplate>> ELSE <<>>)

RECURSIVE templatesForFactors(_)
templatesForFactors(factors) ==
    IF factors = <<>> THEN <<>>
    ELSE templatesForFactor(Head(factors)) \o templatesForFactors(Tail(factors))

\* the recommendations in push order; the id of each is the value of the
\* counter id++ when it was pushed
pushedTemplateRecommendations(assessment, riskAnalysis) ==
    LET criticalFactors == ArrayFilter(riskAnalysis.factors, isHighOrCritical)
        pushed ==
            templatesForFactors(criticalFactors)
            \o (IF assessment.movement.screenBreakFrequency < 20
                THEN <<BreakRuleTemplate>> ELSE <<>>)
            \o (IF ~assessment.workspace.lumbarSupport
                THEN <<LumbarTemplate>> ELSE <<>>)
            \o (IF assessment.workspace.lightingQuality \in {"poor", "fair"}
                THEN <<LightingTemplate>> ELSE <<>>)
    IN  [i \in DOMAIN pushed |-> pushed[i] @@ [id |-> i - 1]]

\* a variant without slice(0, 8)
generateTemplateRecommendationsUncut(assessment, riskAnalysis) ==
    [recommendations |-> pushedTemplateRecommendations(assessment, riskAnalysis),
     aiGenerated |-> FALSE]

\* the RecommendationSet of the fallback
generateTemplateRecommendations(assessment, riskAnalysis) ==
    [recommendations |->
        ArraySlice(pushedTemplateRecommendations(assessment, riskAnalysis), 8),
     aiGenerated |-> FALSE]

----------------------------------------------------------------------------
(* generateAIRecommendations *)

\* What the external generator may answer.  The message content is described by
\* what JSON.parse makes of it.
ConformingItem ==
    Template("Raise the monitor", "short-term", "medium", "equipment", "low", "easy")

BadCategoryItem == [ConformingItem EXCEPT !.category = "urgent"]

BadPriorityItem == [ConformingItem EXCEPT !.priority = "urgent"]

MissingPriorityItem ==
    [title |-> "Raise the monitor", category |-> "short-term", type |-> "equipment",
     estimatedCost |-> "low", implementationDifficulty |-> "easy"]

AiPayloads ==
    {<<>>, <<ConformingItem>>, <<ConformingItem, ConformingItem>>,
     <<ConformingItem, BadCategoryItem>>, <<BadPriorityItem>>, <<MissingPriorityItem>>}

ContentKinds ==
    {"undefined",                   \* no choices, no message or no content
     "empty",                       \* the empty string
     "notJson",                     \* JSON.parse throws
     "jsonNull",                    \* parses to null
     "jsonWithoutRecommendations",  \* an object without 'recommendations'
     "jsonRecommendationsNotArray", \* 'recommendations' has no map method
     "jsonRecommendationsArray"}    \* 'recommendations' is an array

Contents ==
    {[kind |-> k, items |-> <<>>] : k \in ContentKinds \ {"jsonRecommendationsArray"}}
    \cup {[kind |-> "jsonRecommendationsArray", items |-> p] : p \in AiPayloads}

\* what `await response.json()` yields
Bodies ==
    {[kind |-> "rejected", content |-> [kind |-> "undefined", items |-> <<>>]],
     [kind |-> "null", content |-> [kind |-> "undefined", items |-> <<>>]]}
    \cup {[kind |-> "data", content |-> c] : c \in Contents}

\* recommendations.map((rec, index) => ({ id: ..., ...rec }))
withIds(items) == [i \in DOMAIN items |-> items[i] @@ [id |-> i - 1]]

\* lines 419-432 throw: response.json() rejects, data is null, the content is
\* missing or empty, JSON.parse throws, or parsedRecommendations.recommendations
\* .map is not callable
throwsAfterJson(body) ==
    \/ body.kind = "rejected"
    \/ body.kind = "null"
    \/ body.content.kind \in {"undefined", "empty"}
    \/ body.content.kind = "notJson"
    \/ body.content.kind \in {"jsonNull", "jsonWithoutRecommendations",
                              "jsonRecommendationsNotArray"}

\* a variant that reads (parsedRecommendations.recommendations || []).map
resultAfterJsonDefaultingToEmpty(assessment, riskAnalysis, body) ==
    IF body.kind = "data" /\ body.content.kind = "jsonWithoutRecommendations"
    THEN [recommendations |-> <<>>, aiGenerated |-> TRUE]
    ELSE IF throwsAfterJson(body)
    THEN generateTemplateRecommendations(assessment, riskAnalysis)
    ELSE [recommendations |-> withIds(body.content.items), aiGenerated |-> TRUE]

\* the RecommendationSet the call resolves with once response.json() has settled
resultAfterJson(assessment, riskAnalysis, body) ==
    IF throwsAfterJson(body)
    THEN generateTemplateRecommendations(assessment, riskAnalysis)
    ELSE [recommendations |-> withIds(body.content.items), aiGenerated |-> TRUE]

\* the call starts: the prompt is built and the request is sent
StartGenerate ==
    /\ gen.pc = "idle"
    /\ gen' = [pc |-> "awaitFetch", riskAnalysis |-> performRiskAnalysis(input)]
    /\ UNCHANGED <<input, ret, recs, history, stores, requests, now, started>>

\* fetch rejects, or resolves with a status that is not OK: the catch block
\* returns the template recommendations
FetchFails ==
    /\ gen.pc = "awaitFetch"
    /\ \E outcome \in {"rejected", "statusNotOk"} :
          gen' = [pc |-> "resolved", riskAnalysis |-> gen.riskAnalysis,
                  fetch |-> outcome,
                  body |-> [kind |-> "none"],
                  result |-> generateTemplateRecommendations(input, gen.riskAnalysis)]
    /\ UNCHANGED <<input, ret, recs, history, stores, requests, now, started>>

\* fetch resolves with an OK status: the call awaits response.json()
FetchSucceeds ==
    /\ gen.pc = "awaitFetch"
    /\ gen' = [pc |-> "awaitJson", riskAnalysis |-> gen.riskAnalysis]
    /\ UNCHANGED <<input, ret, recs, history, stores, requests, now, started>>

\* response.json() settles and the call runs to its return
JsonSettles ==
    /\ gen.pc = "awaitJson"
    /\ \E body \in Bodies :
          gen' = [pc |-> "resolved", riskAnalysis |-> gen.riskAnalysis,
                  fetch |-> "ok", body |-> body,
                  result |-> resultAfterJson(input, gen.riskAnalysis, body)]
    /\ UNCHANGED <<input, ret, recs, history, stores, requests, now, started>>

InitGen ==
    /\ input \in JointInputs
    /\ ret = NoCall
    /\ recs = <<>>
    /\ history = <<>>
    /\ gen = GenIdle
    /\ stores = NoStores
    /\ requests = <<>>
    /\ now = 0
    /\ started = 0

NextGen ==
    \/ StartGenerate
    \/ FetchFails
    \/ FetchSucceeds
    \/ JsonSettles

SpecGen == InitGen /\ [][NextGen]_vars

\* the external generator failed: the fetch rejected, the status was not OK,
\* there was no message content, or the content was not JSON with a
\* recommendations array
generatorFailed ==
    /\ gen.pc = "resolved"
    /\ \/ gen.fetch \in {"rejected", "statusNotOk"}
       \/ gen.body.kind \in {"rejected", "null"}
       \/ gen.body.content.kind # "jsonRecommendationsArray"

\* C4: whenever the external generator fails, the call resolves with the result
\* of the template synthesizer (aiGenerated = false); it never rejects.
C4_FailureFallsBack ==
    /\ gen.pc \in {"idle", "awaitFetch", "awaitJson", "resolved"}
    /\ generatorFailed =>
          /\ gen.result = generateTemplateRecommendations(input, gen.riskAnalysis)
          /\ ~gen.result.aiGenerated

\* the generator answered with JSON that has no recommendations array, and the
\* call resolved with a non-empty template list
C4_Witness ==
    /\ gen.pc = "resolved"
    /\ gen.fetch = "ok"
    /\ gen.body.kind = "data"
    /\ gen.body.content.kind = "jsonWithoutRecommendations"
    /\ ~gen.result.aiGenerated
    /\ Len(gen.result.recommendations) >= 3

RecommendationFields ==
    {"category", "priority", "type", "title", "estimatedCost",
     "implementationDifficulty"}

\* the item has every field of Recommendation, with values inside the enums
conformsToSchema(item) ==
    /\ RecommendationFields \subseteq DOMAIN item
    /\ item.category \in {"immediate", "short-term", "long-term"}
    /\ item.priority \in {"low", "medium", "high", "critical"}
    /\ item.type \in {"posture", "equipment", "movement", "environment", "behavior"}
    /\ item.estimatedCost \in {"free", "low", "medium", "high"}
    /\ item.implementationDifficulty \in {"easy", "medium", "hard"}

\* C5: when the generator answers with parsable JSON whose recommendations do
\* not match the Recommendation schema, the call returns the fallback
\* synthesizer's result (aiGenerated = false).
C5_SchemaMismatchFallsBack ==
    (/\ gen.pc = "resolved"
     /\ gen.fetch = "ok"
     /\ gen.body.kind = "data"
     /\ gen.body.content.kind = "jsonRecommendationsArray"
     /\ \E i \in DOMAIN gen.body.content.items :
           ~conformsToSchema(gen.body.content.items[i]))
    => /\ ~gen.result.aiGenerated
       /\ gen.result = generateTemplateRecommendations(input, gen.riskAnalysis)

----------------------------------------------------------------------------
(* calculateSymptomsRisk, called again after one symptom has changed *)

SymptomFields == {"type", "severity", "frequency"}

\* the values a symptom field takes
symptomFieldValues(field) ==
    CASE field = "type" -> SymptomTypes
      [] field = "severity" -> Severities
      [] field = "frequency" -> Frequencies

CallCalculateSymptomsRisk ==
    /\ ret.fn = "none"
    /\ ret' = [fn |-> "calculateSymptomsRisk",
               value |-> calculateSymptomsRisk(input.symptoms)]
    /\ UNCHANGED <<input, recs, history, gen, stores, requests, now, started>>

\* the caller replaces one field of a lone symptom and scores the list again
RescoreSymptom ==
    /\ ret.fn = "calculateSymptomsRisk"
    /\ Len(input.symptoms) = 1
    /\ \E field \in SymptomFields :
          \E v \in symptomFieldValues(field) \ {input.symptoms[1][field]} :
             LET q == <<[input.symptoms[1] EXCEPT ![field] = v]>>
             IN  /\ input' = [input EXCEPT !.symptoms = q]
                 /\ ret' = [fn |-> "calculateSymptomsRisk",
                            value |-> calculateSymptomsRisk(q)]
    /\ UNCHANGED <<recs, history, gen, stores, requests, now, started>>

\* the caller reports one more symptom, at the end of the list, and scores the
\* list again
AppendSymptom ==
    /\ ret.fn = "calculateSymptomsRisk"
    /\ Len(input.symptoms) < MaxSymptoms
    /\ \E s \in SymptomSamples :
          LET q == Append(input.symptoms, s)
          IN  /\ input' = [input EXCEPT !.symptoms = q]
              /\ ret' = [fn |-> "calculateSymptomsRisk",
                         value |-> calculateSymptomsRisk(q)]
    /\ UNCHANGED <<recs, history, gen, stores, requests, now, started>>

InitSymptoms ==
    /\ input \in SymptomSweep
    /\ ret = NoCall
    /\ recs = <<>>
    /\ history = <<>>
    /\ gen = GenIdle
    /\ stores = NoStores
    /\ requests = <<>>
    /\ now = 0
    /\ started = 0

NextSymptoms ==
    \/ CallCalculateSymptomsRisk
    \/ RescoreSymptom
    \/ AppendSymptom

SpecSymptoms == InitSymptoms /\ [][NextSymptoms]_vars

frequencyRank == [never |-> 0, rarely |-> 1, sometimes |-> 2, often |-> 3, always |-> 4]

severityRank == [none |-> 0, mild |-> 1, moderate |-> 2, severe |-> 3]

\* t is s with its severity or its frequency raised, or moved into a critical
\* area, and nothing lowered
symptomRaised(s, t) ==
    /\ s # t
    /\ severityRank[t.severity] >= severityRank[s.severity]
    /\ frequencyRank[t.frequency] >= frequencyRank[s.frequency]
    /\ s.type \in {"neck", "back", "wrist"} => t.type \in {"neck", "back", "wrist"}

MildFoot == [type |-> "foot", severity |-> "mild", frequency |-> "rarely"]

\* C11: the empty symptom list scores exactly 0; a lone severe/always symptom on
\* the back scores strictly more than a lone mild/rarely symptom on the foot;
\* and raising the severity or the frequency of a lone symptom, or moving it
\* into a critical area, never lowers the score.
C11_SymptomsMonotonic ==
    [][/\ (ret'.fn = "calculateSymptomsRisk" /\ input'.symptoms = <<>>)
          => ret'.value = 0
       /\ (ret'.fn = "calculateSymptomsRisk" /\ input'.symptoms = <<SevereBack>>)
          => ret'.value > calculateSymptomsRisk(<<MildFoot>>)
       /\ (/\ ret.fn = "calculateSymptomsRisk"
           /\ ret'.fn = "calculateSymptomsRisk"
           /\ Len(input.symptoms) = 1
           /\ Len(input'.symptoms) = 1
           /\ symptomRaised(input.symptoms[1], input'.symptoms[1]))
          => ret'.value >= ret.value]_vars

\* a lone moderate symptom that occurs always has been scored, above what its
\* mild counterpart scores
C11_Witness ==
    /\ ret.fn = "calculateSymptomsRisk"
    /\ input.symptoms = <<[type |-> "back", severity |-> "moderate", frequency |-> "always"]>>
    /\ ret.value > calculateSymptomsRisk(
                      <<[type |-> "back", severity |-> "mild", frequency |-> "always"]>>)

\* C25: reporting one more symptom never lowers the symptom score: for a list
\* L and a symptom s, calculateSymptomsRisk(L with s appended) is at least
\* calculateSymptomsRisk(L).
C25_AppendNeverLowers ==
    [][(/\ ret.fn = "calculateSymptomsRisk"
        /\ ret'.fn = "calculateSymptomsRisk"
        /\ Len(input'.symptoms) = Len(input.symptoms) + 1
        /\ SubSeq(input'.symptoms, 1, Len(input.symptoms)) = input.symptoms)
       => ret'.value >= ret.value]_vars

----------------------------------------------------------------------------
(* identifyPriorityAreas, called on a factor list *)

MaxFactors == 4

Factor(category, name, severity, score) ==
    [category |-> category, name |-> name, severity |-> severity, score |-> score]

FactorSamples ==
    {Factor("posture", "Poor Posture Alignment", "high", 8000),
     Factor("posture", "Poor Posture Alignment", "moderate", 9000),
     Factor("equipment", "Suboptimal Workspace Setup", "high", 8000),
     Factor("equipment", "Suboptimal Workspace Setup", "critical", 6000),
     Factor("movement", "Insufficient Movement Patterns", "high", 6000),
     Factor("movement", "Insufficient Movement Patterns", "low", 9000),
     Factor("environment", "Poor Lighting", "high", 7000),
     Factor("environment", "Poor Lighting", "moderate", 4000),
     Factor("time", "Extended Work Hours", "high", 6000),
     Factor("time", "Extended Work Hours", "moderate", 1500),
     Factor("posture", "Existing Discomfort/Pain", "critical", 9500),
     Factor("posture", "Existing Discomfort/Pain", "high", 7000)}

\* one factor of every category at severity 'high', and a critical discomfort
\* factor
FullFactorList ==
    <<Factor("time", "Extended Work Hours", "high", 6000),
      Factor("environment", "Poor Lighting", "high", 7000),
      Factor("movement", "Insufficient Movement Patterns", "high", 6000),
      Factor("equipment", "Suboptimal Workspace Setup", "high", 8000),
      Factor("posture", "Poor Posture Alignment", "high", 8000),
      Factor("posture", "Existing Discomfort/Pain", "critical", 9500)>>

\* five severe factors, the critical discomfort factor scoring lowest, and a
\* factor of severity 'low' that scores highest
MixedFactorList ==
    <<Factor("movement", "Insufficient Movement Patterns", "low", 9000),
      Factor("time", "Extended Work Hours", "high", 6000),
      Factor("posture", "Existing Discomfort/Pain", "critical", 5000),
      Factor("environment", "Poor Lighting", "high", 7000),
      Factor("equipment", "Suboptimal Workspace Setup", "high", 8000),
      Factor("posture", "Poor Posture Alignment", "high", 8000)>>

FactorLists ==
    UNION {[1..k -> FactorSamples] : k \in 0..MaxFactors}
    \cup {FullFactorList, SubSeq(FullFactorList, 1, 5), SubSeq(FullFactorList, 2, 6),
          MixedFactorList, SubSeq(MixedFactorList, 1, 5)}

CallIdentifyPriorityAreas ==
    /\ ret.fn = "none"
    /\ ret' = [fn |-> "identifyPriorityAreas",
               value |-> identifyPriorityAreas(input.factors)]
    /\ UNCHANGED <<input, recs, history, gen, stores, requests, now, started>>

InitPriority ==
    /\ input \in [factors : FactorLists]
    /\ ret = NoCall
    /\ recs = <<>>
    /\ history = <<>>
    /\ gen = GenIdle
    /\ stores = NoStores
    /\ requests = <<>>
    /\ now = 0
    /\ started = 0

NextPriority == CallIdentifyPriorityAreas

SpecPriority == InitPriority /\ [][NextPriority]_vars

\* C12: the list identifyPriorityAreas returns has at most 5 entries, for every
\* factor list.
C12_AtMostFivePriorities ==
    ret.fn = "identifyPriorityAreas" => Len(ret.value) <= 5

\* a list of four or more factors, more than three of them high or critical,
\* has been reduced to the urgent sentence and three category sentences
C12_Witness ==
    /\ ret.fn = "identifyPriorityAreas"
    /\ Len(ArrayFilter(input.factors, isHighOrCritical)) >= 4
    /\ Len(ret.value) = 4

----------------------------------------------------------------------------
(* the order sortRecommendationsByPriority produces *)

priorityRank == [critical |-> 4, high |-> 3, medium |-> 2, low |-> 1]

categoryRank == ("immediate" :> 3) @@ ("short-term" :> 2) @@ ("long-term" :> 1)

\* free > low > medium > high
costRank == [free |-> 4, low |-> 3, medium |-> 2, high |-> 1]

sameSortKeys(a, b) ==
    /\ a.priority = b.priority
    /\ a.category = b.category
    /\ a.estimatedCost = b.estimatedCost

\* the elements of list that share the three keys of rec, in list order
keyClass(list, rec) == SelectSeq(list, LAMBDA x : sameSortKeys(x, rec))

\* C13: in the list sortRecommendationsByPriority returns, an element placed
\* before another has a priority rank at least as high; with equal priorities a
\* category rank at least as high; with both equal a cost rank at least as high;
\* and elements equal on all three keys keep their relative input order.
C13_SortedByThreeKeys ==
    ret.fn = "sortRecommendationsByPriority" =>
        /\ \A i, j \in DOMAIN ret.value :
              i < j =>
                LET a == ret.value[i]
                    b == ret.value[j]
                IN  /\ priorityRank[a.priority] >= priorityRank[b.priority]
                    /\ a.priority = b.priority
                          => categoryRank[a.category] >= categoryRank[b.category]
                    /\ (a.priority = b.priority /\ a.category = b.category)
                          => costRank[a.estimatedCost] >= costRank[b.estimatedCost]
        /\ \A k \in DOMAIN ret.arg :
              keyClass(ret.value, ret.arg[k]) = keyClass(ret.arg, ret.arg[k])

\* a list was reordered by the sort while two different elements equal on all
\* three keys kept their order, and two elements were ordered by cost alone
C13_Witness ==
    /\ ret.fn = "sortRecommendationsByPriority"
    /\ ret.value # ret.arg
    /\ \E i, j \in DOMAIN ret.arg :
          /\ i < j
          /\ ret.arg[i] # ret.arg[j]
          /\ sameSortKeys(ret.arg[i], ret.arg[j])
    /\ \E i, j \in DOMAIN ret.arg :
          /\ i < j
          /\ ret.arg[i].priority = ret.arg[j].priority
          /\ ret.arg[i].category = ret.arg[j].category
          /\ costRank[ret.arg[i].estimatedCost] < costRank[ret.arg[j].estimatedCost]

----------------------------------------------------------------------------
(* the repetitive-motion bands of calculateMovementRisk *)

\* the penalty the two bands of one repetitive motion give when both add
additiveBands(value, lower, lowerPenalty, upper, upperPenalty) ==
    (IF value > lower THEN lowerPenalty ELSE 0)
    + (IF value > upper THEN upperPenalty ELSE 0)

additiveRepetitivePenalty(repetitiveMotions) ==
    additiveBands(repetitiveMotions.typing, 300, 10, 400, 15)
    + additiveBands(repetitiveMotions.mouseClicks, 100, 8, 150, 12)
    + additiveBands(repetitiveMotions.reachingMovements, 20, 10, 30, 15)

\* C14: the repetitive-motion bands are additive: with the break, stretching,
\* walking and posture-change frequencies at their recommended values, the
\* movement score is the sum of both bands of each motion (typing > 400 gives
\* 25, mouseClicks > 150 gives 20, reachingMovements > 30 gives 25).
C14_RepetitiveBandsAdditive ==
    (/\ ret.fn = "calculateOverallRiskScore"
     /\ input.movement.screenBreakFrequency = NeutralMovement.screenBreakFrequency
     /\ input.movement.stretchingFrequency = NeutralMovement.stretchingFrequency
     /\ input.movement.walkingFrequency = NeutralMovement.walkingFrequency
     /\ input.movement.postureChanges = NeutralMovement.postureChanges)
    => ret.movementScore
          = 100 * additiveRepetitivePenalty(input.movement.repetitiveMotions)

----------------------------------------------------------------------------
(* the factors generateRiskFactors emits *)

\* the factors of the list with this category and name
factorsNamed(factors, category, name) ==
    SelectSeq(factors, LAMBDA f : f.category = category /\ f.name = name)

\* the list holds exactly one factor of this category and name, with this score
\* and the severity of its band, if emitted holds, and none otherwise
emitsSubModelFactor(factors, category, name, emitted, score) ==
    factorsNamed(factors, category, name) =
        IF emitted
        THEN <<[category |-> category, name |-> name, severity |-> getRiskLevel(score),
                score |-> score]>>
        ELSE <<>>

\* C15: generateRiskFactors emits a posture, an equipment and a movement factor
\* iff the score of the sub-model is above 25, each with that score and the
\* severity getRiskLevel gives it; a time factor iff workHoursPerDay > 8, with
\* score min(100, (hours - 8) * 15) and severity 'high' iff hours > 10, else
\* 'moderate'; an 'Existing Discomfort/Pain' posture factor iff the symptom
\* score is above 0; and nothing else.
C15_FactorsEmitted ==
    ret.fn = "generateRiskFactors" =>
        LET factors == ret.value
            postureScore == calculatePostureRisk(input.posture, input.userProfile)
            workspaceScore == calculateWorkspaceRisk(input.workspace, input.userProfile)
            movementScore == calculateMovementRisk(input.movement)
            symptomsScore == calculateSymptomsRisk(input.symptoms)
            hours == input.userProfile.workHoursPerDay
            timeFactors == factorsNamed(factors, "time", "Extended Work Hours")
        IN  /\ emitsSubModelFactor(factors, "posture", "Poor Posture Alignment",
                                   postureScore > 2500, postureScore)
            /\ emitsSubModelFactor(factors, "equipment", "Suboptimal Workspace Setup",
                                   workspaceScore > 2500, workspaceScore)
            /\ emitsSubModelFactor(factors, "movement", "Insufficient Movement Patterns",
                                   movementScore > 2500, movementScore)
            /\ emitsSubModelFactor(factors, "posture", "Existing Discomfort/Pain",
                                   symptomsScore > 0, symptomsScore)
            /\ Len(timeFactors) = (IF hours > 8 THEN 1 ELSE 0)
            /\ hours > 8 =>
                  /\ timeFactors[1].score = 100 * Min(100, (hours - 8) * 15)
                  /\ timeFactors[1].severity = "high" <=> hours > 10
                  /\ timeFactors[1].severity = "moderate" <=> hours <= 10
            /\ Len(factors) =
                  Len(factorsNamed(factors, "posture", "Poor Posture Alignment"))
                  + Len(factorsNamed(factors, "equipment", "Suboptimal Workspace Setup"))
                  + Len(factorsNamed(factors, "movement", "Insufficient Movement Patterns"))
                  + Len(factorsNamed(factors, "posture", "Existing Discomfort/Pain"))
                  + Len(timeFactors)

\* all five factors were emitted for a 10-hour day, the time factor 'moderate'
C15_Witness ==
    /\ ret.fn = "generateRiskFactors"
    /\ Len(ret.value) = 5
    /\ input.userProfile.workHoursPerDay = 10
    /\ \E i \in DOMAIN ret.value :
          ret.value[i].category = "time" /\ ret.value[i].severity = "moderate"

\* the place of a factor in the order generateRiskFactors pushes them
insertionRank(factor) ==
    CASE factor.category = "posture" /\ factor.name = "Poor Posture Alignment" -> 1
      [] factor.category = "equipment" -> 2
      [] factor.category = "movement" -> 3
      [] factor.category = "time" -> 4
      [] factor.category = "posture" /\ factor.name = "Existing Discomfort/Pain" -> 5

\* C16: two factors of equal score appear in the list generateRiskFactors
\* returns in their insertion order (posture, equipment, movement, time,
\* existing discomfort).
C16_EqualScoresKeepInsertionOrder ==
    ret.fn = "generateRiskFactors" =>
        \A i, j \in DOMAIN ret.value :
            (i < j /\ ret.value[i].score = ret.value[j].score)
                => insertionRank(ret.value[i]) < insertionRank(ret.value[j])

\* two factors with whole-number scores came out with the same score, behind a
\* factor of a higher score that was pushed after one of them
C16_Witness ==
    /\ ret.fn = "generateRiskFactors"
    /\ \E i, j \in DOMAIN ret.value :
          /\ 1 < i
          /\ i < j
          /\ ret.value[i].score = ret.value[j].score
          /\ insertionRank(ret.value[i]) > 1
          /\ insertionRank(ret.value[1]) > insertionRank(ret.value[i])

----------------------------------------------------------------------------
(* the sentences identifyPriorityAreas returns *)

RiskCategories == {"posture", "equipment", "movement", "environment", "time"}

categorySentence ==
    [posture |-> "Improve posture alignment and body positioning",
     equipment |-> "Upgrade workspace equipment and setup",
     movement |-> "Increase movement and break frequency",
     environment |-> "Optimize environmental conditions",
     time |-> "Manage work duration and scheduling"]

urgentSentence == "Address existing pain and discomfort immediately"

\* the positions of the factors of severity 'high' or 'critical'
severeIndices(factors) ==
    {i \in DOMAIN factors : factors[i].severity \in {"high", "critical"}}

\* how many severe factors rank above factor i: those of a higher score, and
\* those of the same score that come earlier in the list
severeAbove(factors, i) ==
    Cardinality({j \in severeIndices(factors) :
                    \/ factors[j].score > factors[i].score
                    \/ factors[j].score = factors[i].score /\ j < i})

\* the categories of the three highest-scoring severe factors
topThreeCategories(factors) ==
    {factors[i].category : i \in {k \in severeIndices(factors) :
                                     severeAbove(factors, k) < 3}}

\* C17: the sentence of a category is in the result of identifyPriorityAreas iff
\* the category belongs to one of the 3 highest-scoring factors among those of
\* severity 'high' or 'critical', and it is there at most once.
C17_CategorySentences ==
    ret.fn = "identifyPriorityAreas" =>
        \A c \in RiskCategories :
            /\ occurrences(ret.value, categorySentence[c]) =
                  (IF c \in topThreeCategories(input.factors) THEN 1 ELSE 0)

\* four severe factors of four categories were passed together with a
\* higher-scoring factor that is not severe: the category of the fourth has no
\* sentence
C17_Witness ==
    /\ ret.fn = "identifyPriorityAreas"
    /\ \E i \in severeIndices(input.factors) :
          /\ severeAbove(input.factors, i) >= 3
          /\ input.factors[i].category \notin topThreeCategories(input.factors)
          /\ occurrences(ret.value, categorySentence[input.factors[i].category]) = 0
    /\ \E i \in DOMAIN input.factors :
          /\ i \notin severeIndices(input.factors)
          /\ input.factors[i].category \notin topThreeCategories(input.factors)
          /\ \A j \in severeIndices(input.factors) :
                input.factors[i].score > input.factors[j].score

\* the list holds a posture-category existing-discomfort factor of severity
\* 'critical'
holdsCriticalDiscomfort(factors) ==
    \E i \in DOMAIN factors :
        /\ factors[i].category = "posture"
        /\ factors[i].name = "Existing Discomfort/Pain"
        /\ factors[i].severity = "critical"

\* C18: the urgent sentence is the first element of the result whenever the
\* factor list holds a critical existing-discomfort posture factor, and is
\* absent from the result in every other case.
C18_UrgentSentenceFirst ==
    ret.fn = "identifyPriorityAreas" =>
        IF holdsCriticalDiscomfort(input.factors)
        THEN /\ Len(ret.value) >= 1
             /\ ret.value[1] = urgentSentence
             /\ occurrences(ret.value, urgentSentence) = 1
        ELSE occurrences(ret.value, urgentSentence) = 0

\* a critical discomfort factor that is not among the three highest-scoring
\* severe factors put the urgent sentence in front of three category sentences
C18_Witness ==
    /\ ret.fn = "identifyPriorityAreas"
    /\ holdsCriticalDiscomfort(input.factors)
    /\ \E i \in DOMAIN input.factors :
          /\ input.factors[i].name = "Existing Discomfort/Pain"
          /\ input.factors[i].severity = "critical"
          /\ severeAbove(input.factors, i) >= 3
    /\ Len(ret.value) = 4
    /\ ret.value[1] = urgentSentence
    /\ ret.value[2] # urgentSentence

----------------------------------------------------------------------------
(* generateTemplateRecommendations, called on an assessment and an analysis *)

TemplateFactorSamples ==
    {Factor("posture", "Poor Posture Alignment", "high", 8000),
     Factor("equipment", "Suboptimal Workspace Setup", "critical", 9000),
     Factor("equipment", "Suboptimal Workspace Setup", "moderate", 4000),
     Factor("movement", "Insufficient Movement Patterns", "high", 6000),
     Factor("time", "Extended Work Hours", "high", 6000),
     Factor("environment", "Poor Lighting", "critical", 9000),
     Factor("posture", "Existing Discomfort/Pain", "critical", 9500)}

\* twelve factors, seven of them severe with a template
LongFactorList == FullFactorList \o MixedFactorList

TemplateFactorLists ==
    UNION {[1..k -> TemplateFactorSamples] : k \in 0..MaxFactors}
    \cup {LongFactorList, MixedFactorList}

TemplateAssessments ==
    {[NeutralInput EXCEPT !.movement.screenBreakFrequency = breaks,
                          !.workspace.lumbarSupport = lumbar,
                          !.workspace.lightingQuality = lighting] :
        breaks \in {5, 10, 20}, lumbar \in BOOLEAN, lighting \in LightingQualities}

CallGenerateTemplateRecommendations ==
    /\ ret.fn = "none"
    /\ ret' = [fn |-> "generateTemplateRecommendations",
               value |-> generateTemplateRecommendations(input.assessment,
                                                         input.riskAnalysis)]
    /\ UNCHANGED <<input, recs, history, gen, stores, requests, now, started>>

InitTemplate ==
    /\ input \in [assessment : TemplateAssessments,
                  riskAnalysis : [factors : TemplateFactorLists]]
    /\ ret = NoCall
    /\ recs = <<>>
    /\ history = <<>>
    /\ gen = GenIdle
    /\ stores = NoStores
    /\ requests = <<>>
    /\ now = 0
    /\ started = 0

NextTemplate == CallGenerateTemplateRecommendations

SpecTemplate == InitTemplate /\ [][NextTemplate]_vars

\* the title of the template a factor selects, "" when it selects none
templateTitleFor(factor) ==
    IF factor.severity \notin {"high", "critical"} THEN ""
    ELSE CASE factor.category = "posture" -> "Improve Posture Alignment"
           [] factor.category = "movement" -> "Increase Movement and Breaks"
           [] factor.category = "equipment" -> "Workspace Equipment Optimization"
           [] OTHER -> ""

\* the titles the fallback is to return, in order
expectedTemplateTitles(assessment, factors) ==
    LET perFactor == SelectSeq([i \in DOMAIN factors |-> templateTitleFor(factors[i])],
                               LAMBDA title : title # "")
        all == perFactor
               \o (IF assessment.movement.screenBreakFrequency < 20
                   THEN <<"Implement 20-20-20 Rule">> ELSE <<>>)
               \o (IF assessment.workspace.lumbarSupport = FALSE
                   THEN <<"Add Lumbar Support">> ELSE <<>>)
               \o (IF assessment.workspace.lightingQuality \in {"poor", "fair"}
                   THEN <<"Improve Lighting Conditions">> ELSE <<>>)
    IN  SubSeq(all, 1, IF Len(all) < 8 THEN Len(all) ELSE 8)

\* C19: generateTemplateRecommendations returns, in this order, one template per
\* high or critical factor in list order, chosen by category (posture, movement,
\* equipment; none for any other category), then the 20-20-20 rule iff
\* screenBreakFrequency < 2, then lumbar support iff lumbarSupport is false, then
\* lighting iff lightingQuality is 'poor' or 'fair'; cut to the first 8 entries.
C19_TemplateList ==
    ret.fn = "generateTemplateRecommendations" =>
        /\ [i \in DOMAIN ret.value.recommendations |->
               ret.value.recommendations[i].title]
              = expectedTemplateTitles(input.assessment, input.riskAnalysis.factors)
        /\ Len(ret.value.recommendations) <= 8

\* more than eight templates were due and the first eight were returned
C19_Witness ==
    /\ ret.fn = "generateTemplateRecommendations"
    /\ input.riskAnalysis.factors = LongFactorList
    /\ input.assessment.movement.screenBreakFrequency = 5
    /\ ~input.assessment.workspace.lumbarSupport
    /\ input.assessment.workspace.lightingQuality = "fair"
    /\ Len(ret.value.recommendations) = 8
    /\ ret.value.recommendations[8].title = "Implement 20-20-20 Rule"

----------------------------------------------------------------------------
(* the recommendations filterRecommendations keeps *)

\* the field of Recommendation a filter field is compared with
filteredField ==
    [category |-> "category", priority |-> "priority", type |-> "type",
     cost |-> "estimatedCost", difficulty |-> "implementationDifficulty"]

\* the recommendation agrees with the filters on each of these filter fields
matchesOn(rec, filters, keys) ==
    \A key \in keys : rec[filteredField[key]] = filters[key]

\* C20: filterRecommendations returns, in input order, exactly the
\* recommendations that match every supplied filter field; an omitted field
\* imposes no constraint.
C20_FilterMatchesSupplied ==
    ret.fn = "filterRecommendations" =>
        ret.value = SelectSeq(ret.arg,
                              LAMBDA rec : matchesOn(rec, ret.filters, DOMAIN ret.filters))

\* C20, amended: filterRecommendations returns, in input order, exactly the
\* recommendations that match every filter field supplied with a non-empty
\* value; a field that is omitted or is the empty string imposes no constraint.
C20_FilterAmended ==
    ret.fn = "filterRecommendations" =>
        ret.value = SelectSeq(ret.arg,
                       LAMBDA rec : matchesOn(rec, ret.filters,
                                       {key \in DOMAIN ret.filters : ret.filters[key] # ""}))

\* filters with an empty category and priority 'low' kept the low-priority
\* recommendations of a list and dropped another one
C20_Witness ==
    /\ ret.fn = "filterRecommendations"
    /\ ret.filters = [category |-> "", priority |-> "low"]
    /\ Len(ret.value) = 2
    /\ Len(ret.arg) = 3
    /\ ret.value[1] # ret.value[2]

----------------------------------------------------------------------------
(* calculateImprovement; scores in hundredths of a point *)

\* The quotient of line 335 is evaluated in IEEE doubles.  These are the pairs
\* <<previousScore, currentScore>> of whole-point scores whose exact quotient
\* times 100 ends in .5 while the double lands on the other side of it, so that
\* Math.round gives the integer below.
doubleQuotientFallsShort ==
    {<<4000, 2900>>, <<4000, 6300>>, <<4000, 8100>>, <<4000, 9100>>, <<8000, 5800>>}

\* const percentage = previousScore > 0 ? Math.round(...) : 0
signedPercentage(previousScore, currentScore) ==
    LET difference == currentScore - previousScore
    IN  IF previousScore > 0
        THEN MathRound(100 * difference, previousScore)
             - (IF <<previousScore, currentScore>> \in doubleQuotientFallsShort
                THEN 1 ELSE 0)
        ELSE 0

\* a variant that still calls a change of exactly 5 percent stable
calculateImprovementInclusive(previousScore, currentScore) ==
    LET percentage == signedPercentage(previousScore, currentScore)
    IN  [percentage |-> Abs(percentage),
         trend |-> IF Abs(percentage) <= 5 THEN "stable"
                   ELSE IF percentage < 0 THEN "improving"
                   ELSE "declining"]

calculateImprovement(previousScore, currentScore) ==
    LET percentage == signedPercentage(previousScore, currentScore)
    IN  [percentage |-> Abs(percentage),
         trend |-> IF Abs(percentage) < 5 THEN "stable"
                   ELSE IF percentage < 0 THEN "improving"
                   ELSE "declining"]

\* every whole-point score from 0 to 100
ImprovementScores == {100 * k : k \in 0..100}

CallCalculateImprovement ==
    /\ ret.fn = "none"
    /\ ret' = [fn |-> "calculateImprovement",
               value |-> calculateImprovement(input.previousScore, input.currentScore)]
    /\ UNCHANGED <<input, recs, history, gen, stores, requests, now, started>>

InitImprovement ==
    /\ input \in [previousScore : ImprovementScores, currentScore : ImprovementScores]
    /\ ret = NoCall
    /\ recs = <<>>
    /\ history = <<>>
    /\ gen = GenIdle
    /\ stores = NoStores
    /\ requests = <<>>
    /\ now = 0
    /\ started = 0

NextImprovement == CallCalculateImprovement

SpecImprovement == InitImprovement /\ [][NextImprovement]_vars

\* round((currentScore - previousScore) / previousScore * 100), halves rounded
\* upwards; 0 when previousScore is 0
roundedPercentChange(previousScore, currentScore) ==
    IF previousScore = 0 THEN 0
    ELSE (200 * (currentScore - previousScore) + previousScore) \div (2 * previousScore)

\* C21: with p = round((currentScore - previousScore) / previousScore * 100),
\* the trend of calculateImprovement is 'stable' iff |p| < 5, 'improving' iff
\* p <= -5 and 'declining' iff p >= 5; when previousScore is 0 the trend is
\* 'stable' whatever currentScore is.
C21_ImprovementTrend ==
    ret.fn = "calculateImprovement" =>
        LET p == roundedPercentChange(input.previousScore, input.currentScore)
        IN  /\ ret.value.trend = "stable" <=> (p > -5 /\ p < 5)
            /\ ret.value.trend = "improving" <=> p <= -5
            /\ ret.value.trend = "declining" <=> p >= 5
            /\ input.previousScore = 0 => ret.value.trend = "stable"

\* a drop from 100 to 95 points, exactly -5 percent, was classified 'improving'
C21_Witness ==
    /\ ret.fn = "calculateImprovement"
    /\ input.previousScore = 10000
    /\ input.currentScore = 9500
    /\ ret.value.trend = "improving"

\* C22: for every previousScore > 0 and every currentScore, also one below
\* previousScore, the percentage calculateImprovement returns equals
\* round((currentScore - previousScore) / previousScore * 100).
C22_PercentageIsSignedChange ==
    (ret.fn = "calculateImprovement" /\ input.previousScore > 0)
    => ret.value.percentage
          = roundedPercentChange(input.previousScore, input.currentScore)

----------------------------------------------------------------------------
(* The fallback list, for a riskAnalysis computed from the same assessment *)

\* C26: when riskAnalysis is the result of performRiskAnalysis for the same
\* assessment, the list returned by generateTemplateRecommendations holds no
\* two recommendations with the same title.
C26_FallbackTitlesDistinct ==
    (/\ gen.pc = "resolved"
     /\ ~gen.result.aiGenerated
     /\ gen.riskAnalysis = performRiskAnalysis(input))
    => \A i, j \in DOMAIN gen.result.recommendations :
          gen.result.recommendations[i].title = gen.result.recommendations[j].title
          => i = j

----------------------------------------------------------------------------
(* The trends endpoint against the engine's trend analyzer *)

\* the list is ordered by date
isDateOrdered(list) ==
    \A i, j \in DOMAIN list : i < j => list[i].assessmentDate <= list[j].assessmentDate

\* C27: for every date-ordered list of at least 2 assessments that all lie
\* inside the requested window, the trend returned by GET_TRENDS equals the
\* trend returned by calculateRiskTrend on the same list.
C27_EndpointTrendIsEngineTrend ==
    (/\ ret.fn = "GET_TRENDS"
     /\ Len(ret.arg) >= 2
     /\ isDateOrdered(ret.arg)
     /\ \A i \in DOMAIN ret.arg : ret.arg[i].assessmentDate >= ret.cutoffDate)
    => /\ ret.value.status = 200
       /\ ret.value.trend = calculateRiskTrend(ret.arg).trend

----------------------------------------------------------------------------
(* The API routes over the in-memory stores.  Identifiers made from          *)
(* Date.now() are carried as the clock value they were made from; dates are  *)
(* clock values.                                                             *)

MaxRequests == 3

MaxNow == 2

\* arr.findIndex(test) + 1: the position of the first element passing the
\* test, 0 when there is none
ArrayFindIndex(arr, test(_)) ==
    IF \E i \in DOMAIN arr : test(arr[i])
    THEN CHOOSE i \in DOMAIN arr :
            /\ test(arr[i])
            /\ \A j \in DOMAIN arr : test(arr[j]) => i <= j
    ELSE 0

\* arr.splice(index, 1), index counted from 1
ArraySplice(arr, index) ==
    [i \in 1..(Len(arr) - 1) |-> IF i < index THEN arr[i] ELSE arr[i + 1]]

AnonymousEmail == ""

\* the assessment forms a client posts: a sound and a poor workplace, with and
\* without an e-mail address in the profile
PoorPosture ==
    [NeutralPosture EXCEPT !.neckAngle = 35, !.shoulderPosition = "hunched",
                           !.backCurvature = "slouched"]

PoorWorkspace ==
    [NeutralWorkspace EXCEPT !.lumbarSupport = FALSE, !.footSupport = FALSE,
                             !.lightingQuality = "poor"]

PoorMovement ==
    [NeutralMovement EXCEPT !.screenBreakFrequency = 5, !.stretchingFrequency = 10]

FormSamples ==
    {[userProfile |-> NeutralProfile @@ [email |-> e],
      workspaceSetup |-> d.workspace, postureData |-> d.posture,
      movementPatterns |-> d.movement, symptoms |-> d.symptoms] :
        e \in {AnonymousEmail, "a@example.org"},
        d \in {[workspace |-> NeutralWorkspace, posture |-> NeutralPosture,
                movement |-> NeutralMovement, symptoms |-> <<>>],
               [workspace |-> PoorWorkspace, posture |-> PoorPosture,
                movement |-> PoorMovement, symptoms |-> <<SevereBack>>]}}

\* the penalty of one symptom in calculateBasicRiskScore's reduce
basicSymptomSeverity(symptom) ==
    CASE symptom.severity = "severe" -> 25
      [] symptom.severity = "moderate" -> 15
      [] symptom.severity = "mild" -> 5
      [] OTHER -> 0

RECURSIVE basicSymptomSum(_)
basicSymptomSum(symptoms) ==
    IF symptoms = <<>> THEN 0
    ELSE basicSymptomSeverity(Head(symptoms)) + basicSymptomSum(Tail(symptoms))

\* calculateBasicRiskScore of the assessments route, in hundredths of a point
calculateBasicRiskScore(data) ==
    LET neck == IF Abs(data.postureData.neckAngle) > 30 THEN 20
                ELSE IF Abs(data.postureData.neckAngle) > 15 THEN 10 ELSE 0
        posture ==
            neck
            + (IF data.postureData.shoulderPosition # "relaxed" THEN 15 ELSE 0)
            + (IF data.postureData.backCurvature = "slouched" THEN 20 ELSE 0)
            + (IF data.postureData.wristPosition # "neutral" THEN 10 ELSE 0)
        workspace ==
            (IF ~data.workspaceSetup.lumbarSupport THEN 15 ELSE 0)
            + (IF ~data.workspaceSetup.footSupport THEN 10 ELSE 0)
            + (IF data.workspaceSetup.lightingQuality = "poor" THEN 10 ELSE 0)
        movement ==
            (IF data.movementPatterns.screenBreakFrequency < 10 THEN 15 ELSE 0)
            + (IF data.movementPatterns.stretchingFrequency < 20 THEN 10 ELSE 0)
        riskScore == posture + workspace + movement
                     + Min(30, basicSymptomSum(data.symptoms))
    IN  100 * Min(100, riskScore)

\* getRiskLevelFromScore of the assessments route
getRiskLevelFromScore(score) ==
    IF score < 2500 THEN "low"
    ELSE IF score < 5000 THEN "moderate"
    ELSE IF score < 7500 THEN "high"
    ELSE "critical"

\* the arguments performRiskAnalysis(assessment, userProfile) works on
analysisInput(assessment, userProfile) ==
    [posture |-> assessment.postureData, workspace |-> assessment.workspaceSetup,
     movement |-> assessment.movementPatterns, symptoms |-> assessment.symptoms,
     userProfile |-> [age |-> userProfile.age, height |-> userProfile.height,
                      workHoursPerDay |-> userProfile.workHoursPerDay]]

\* a request parameter that was not sent, and one that names nothing stored
Absent == 0

Unknown == -1

\* a form without the required assessment data
IncompleteForm == [userProfile |-> NeutralProfile @@ [email |-> AnonymousEmail]]

\* the ids a client may send for a stored assessment or user
assessmentIdsSent == {stores.assessments[i].id : i \in DOMAIN stores.assessments}
                     \cup {Absent, Unknown}

userIdsSent == {stores.assessments[i].userId : i \in DOMAIN stores.assessments}
               \cup {stores.users[i].id : i \in DOMAIN stores.users}
               \cup {Absent, Unknown}

\* users.findIndex(u => u.email === email) + 1
userIndexByEmail(users, email) ==
    LET hasEmail(u) == u.email = email IN ArrayFindIndex(users, hasEmail)

\* users.findIndex(u => u.id === userId) + 1
userIndexById(users, userId) ==
    LET hasId(u) == u.id = userId IN ArrayFindIndex(users, hasId)

\* assessments.findIndex(a => a.id === assessmentId) + 1
assessmentIndexById(assessments, assessmentId) ==
    LET hasId(a) == a.id = assessmentId IN ArrayFindIndex(assessments, hasId)

\* assessments.filter(a => a.userId === userId)
assessmentsOfUser(assessments, userId) ==
    LET ofUser(a) == a.userId = userId IN ArrayFilter(assessments, ofUser)

\* the users array after the 'create or update user profile' block
usersAfterPost(users, profile, userId) ==
    IF profile.email = AnonymousEmail THEN users
    ELSE IF userIndexByEmail(users, profile.email) # 0
    THEN \* Object.assign(existingUser, body.userProfile, ...)
         [users EXCEPT ![userIndexByEmail(users, profile.email)] =
             [id |-> @.id, email |-> profile.email, age |-> profile.age,
              height |-> profile.height, workHoursPerDay |-> profile.workHoursPerDay]]
    ELSE Append(users, [id |-> userId, email |-> profile.email, age |-> profile.age,
                        height |-> profile.height,
                        workHoursPerDay |-> profile.workHoursPerDay])

\* the userId the new assessment gets
userIdForPost(users, profile, freshId) ==
    IF profile.email # AnonymousEmail /\ userIndexByEmail(users, profile.email) # 0
    THEN users[userIndexByEmail(users, profile.email)].id
    ELSE freshId

\* POST /api/assessments
PostAssessments ==
    /\ started < MaxRequests
    /\ started' = started + 1
    /\ \E body \in FormSamples \cup {IncompleteForm} :
          IF "workspaceSetup" \notin DOMAIN body
          THEN /\ ret' = [fn |-> "POST /api/assessments", request |-> started + 1, status |-> 400]
               /\ UNCHANGED stores
          ELSE LET userId == userIdForPost(stores.users, body.userProfile, now)
                   basicRiskScore == calculateBasicRiskScore(body)
                   assessment ==
                       [id |-> now, userId |-> userId, assessmentDate |-> now,
                        workspaceSetup |-> body.workspaceSetup,
                        postureData |-> body.postureData,
                        movementPatterns |-> body.movementPatterns,
                        symptoms |-> body.symptoms,
                        overallScore |-> basicRiskScore,
                        riskLevel |-> getRiskLevelFromScore(basicRiskScore),
                        assessmentType |->
                            IF Len(assessmentsOfUser(stores.assessments, userId)) = 0
                            THEN "initial" ELSE "follow-up"]
               IN  /\ stores' = [stores EXCEPT
                          !.users = usersAfterPost(@, body.userProfile, now),
                          !.assessments = Append(@, assessment)]
                   /\ ret' = [fn |-> "POST /api/assessments", request |-> started + 1, status |-> 201,
                              data |-> assessment]
    /\ UNCHANGED <<input, recs, history, gen, requests, now>>

\* time passes between two requests
Tick ==
    /\ now < MaxNow
    /\ now' = now + 1
    /\ UNCHANGED <<input, ret, recs, history, gen, stores, requests, started>>

\* POST /api/risk-analysis
PostRiskAnalysis ==
    /\ started < MaxRequests
    /\ started' = started + 1
    /\ \E assessmentId \in assessmentIdsSent :
          LET fn == "POST /api/risk-analysis"
              assessmentIndex == assessmentIndexById(stores.assessments, assessmentId)
              assessment == stores.assessments[assessmentIndex]
              userIndex == userIndexById(stores.users, assessment.userId)
              riskAnalysis ==
                  performRiskAnalysis(analysisInput(assessment, stores.users[userIndex]))
          IN  IF assessmentId = Absent
              THEN /\ ret' = [fn |-> fn, request |-> started + 1, status |-> 400]
                   /\ UNCHANGED stores
              ELSE IF assessmentIndex = 0
              THEN /\ ret' = [fn |-> fn, request |-> started + 1, status |-> 404, error |-> "Assessment not found"]
                   /\ UNCHANGED stores
              ELSE IF userIndex = 0
              THEN /\ ret' = [fn |-> fn, request |-> started + 1, status |-> 404,
                              error |-> "User profile not found"]
                   /\ UNCHANGED stores
              ELSE /\ stores' = [stores EXCEPT
                          !.assessments[assessmentIndex].overallScore =
                              riskAnalysis.riskScore,
                          !.assessments[assessmentIndex].riskLevel =
                              riskAnalysis.overallRisk]
                   /\ ret' = [fn |-> fn, request |-> started + 1, status |-> 200, assessmentId |-> assessmentId,
                              data |-> [riskScore |-> riskAnalysis.riskScore,
                                        overallRisk |-> riskAnalysis.overallRisk]]
    /\ UNCHANGED <<input, recs, history, gen, requests, now>>

\* (a, b) => b.assessmentDate.getTime() - a.assessmentDate.getTime()
byAssessmentDateDescending(a, b) == b.assessmentDate - a.assessmentDate

\* progressTracking.findIndex(p => p.userId === userId) + 1
progressIndexOfUser(progressTracking, userId) ==
    LET ofUser(p) == p.userId = userId IN ArrayFindIndex(progressTracking, ofUser)

\* healthMetrics.filter(m => m.userId === userId)
metricsOfUser(healthMetrics, userId) ==
    LET ofUser(metric) == metric.userId = userId IN ArrayFilter(healthMetrics, ofUser)

\* Math.round(((initialScore - currentScore) / initialScore) * 100), 0 without
\* a positive initialScore
improvementOf(initialScore, currentScore) ==
    IF initialScore > 0
    THEN MathRound(100 * (initialScore - currentScore), initialScore)
    ELSE 0

\* the record createInitialProgressTracking builds and pushes
initialProgressTracking(st, userId, date) ==
    LET userAssessments == assessmentsOfUser(st.assessments, userId)
        ascending == ArraySort(userAssessments, byAssessmentDate)
        \* the same array, sorted again
        descending == ArraySort(ascending, byAssessmentDateDescending)
        initialScore == IF Len(userAssessments) = 0 THEN 0
                        ELSE ascending[1].overallScore
        currentScore == IF Len(userAssessments) = 0 THEN 0
                        ELSE descending[1].overallScore
    IN  [userId |-> userId,
         startDate |-> IF Len(userAssessments) = 0 THEN date
                       ELSE ascending[1].assessmentDate,
         currentDate |-> date,
         initialScore |-> initialScore,
         currentScore |-> currentScore,
         improvement |-> improvementOf(initialScore, currentScore),
         metrics |-> Len(metricsOfUser(st.healthMetrics, userId)),
         milestones |-> <<>>]

\* the stores after createInitialProgressTracking(userId)
createInitialProgressTracking(st, userId, date) ==
    [st EXCEPT !.progressTracking = Append(@, initialProgressTracking(st, userId, date))]

\* the stores after updateProgressTracking(userId)
updateProgressTracking(st, userId, date) ==
    LET created == IF progressIndexOfUser(st.progressTracking, userId) = 0
                   THEN createInitialProgressTracking(st, userId, date)
                   ELSE st
        index == progressIndexOfUser(created.progressTracking, userId)
        userProgress == created.progressTracking[index]
        userMetrics == metricsOfUser(st.healthMetrics, userId)
        userAssessments == assessmentsOfUser(st.assessments, userId)
        sorted == ArraySort(userAssessments, byAssessmentDateDescending)
        currentScore == sorted[1].overallScore
        significant(a) == userProgress.initialScore - a.overallScore >= 1000
        milestones == ArrayFilter(sorted, significant)
    IN  IF Len(userMetrics) = 0 \/ Len(userAssessments) = 0
        THEN created
        ELSE [created EXCEPT !.progressTracking[index] =
                 [@ EXCEPT !.currentDate = date,
                           !.metrics = Len(userMetrics),
                           !.currentScore = currentScore,
                           !.improvement =
                               improvementOf(userProgress.initialScore, currentScore),
                           !.milestones =
                               [i \in DOMAIN milestones |->
                                   [date |-> milestones[i].assessmentDate,
                                    score |-> milestones[i].overallScore]]]]

\* POST /api/health-metrics, with a valid metric type and value
PostHealthMetrics ==
    /\ started < MaxRequests
    /\ started' = started + 1
    /\ \E userId \in userIdsSent :
          LET fn == "POST /api/health-metrics"
              healthMetric == [id |-> now, userId |-> userId,
                               metricType |-> "pain-level", value |-> 5,
                               recordedDate |-> now]
              pushed == [stores EXCEPT !.healthMetrics = Append(@, healthMetric)]
          IN  IF userId = Absent
              THEN /\ ret' = [fn |-> fn, request |-> started + 1, status |-> 400]
                   /\ UNCHANGED stores
              ELSE IF userIndexById(stores.users, userId) = 0
              THEN /\ ret' = [fn |-> fn, request |-> started + 1, status |-> 404, error |-> "User not found"]
                   /\ UNCHANGED stores
              ELSE /\ stores' = updateProgressTracking(pushed, userId, now)
                   /\ ret' = [fn |-> fn, request |-> started + 1, status |-> 201, data |-> healthMetric]
    /\ UNCHANGED <<input, recs, history, gen, requests, now>>

\* GET /api/health-metrics/progress
GetProgress ==
    /\ started < MaxRequests
    /\ started' = started + 1
    /\ \E userId \in userIdsSent :
          LET fn == "GET /api/health-metrics/progress"
              after == IF progressIndexOfUser(stores.progressTracking, userId) = 0
                       THEN createInitialProgressTracking(stores, userId, now)
                       ELSE stores
          IN  IF userId = Absent
              THEN /\ ret' = [fn |-> fn, request |-> started + 1, status |-> 400]
                   /\ UNCHANGED stores
              ELSE /\ stores' = after
                   /\ ret' = [fn |-> fn, request |-> started + 1, status |-> 200,
                              data |-> after.progressTracking[
                                  progressIndexOfUser(after.progressTracking, userId)]]
    /\ UNCHANGED <<input, recs, history, gen, requests, now>>

\* recommendationSets.findIndex(r => r.assessmentId === assessmentId) + 1
setIndexOfAssessment(recommendationSets, assessmentId) ==
    LET ofAssessment(r) == r.assessmentId = assessmentId
    IN  ArrayFindIndex(recommendationSets, ofAssessment)

\* what the external generator sends when it answers: two recommendations, the
\* less urgent one first
AnsweredItems ==
    <<Template("Raise the monitor", "short-term", "medium", "equipment", "low", "easy"),
      Template("Stand up and stretch", "immediate", "critical", "movement", "free",
               "easy")>>

GeneratorOutcomes == {"failed", "answered"}

\* the RecommendationSet generateAIRecommendations resolves with, for a call
\* made with this assessment and profile
generatedSet(assessment, userProfile, outcome, date) ==
    LET in == analysisInput(assessment, userProfile)
        set == IF outcome = "answered"
               THEN [recommendations |-> withIds(AnsweredItems), aiGenerated |-> TRUE]
               ELSE generateTemplateRecommendations(in, performRiskAnalysis(in))
    IN  [assessmentId |-> assessment.id, userId |-> userProfile.id,
         recommendations |-> set.recommendations, generatedDate |-> date,
         aiGenerated |-> set.aiGenerated]

\* recommendationSets after the lines that follow the await of POST
\* /api/recommendations: the splice under regenerate, then the push
setsAfterGeneration(recommendationSets, regenerate, assessmentId, set) ==
    LET existingIndex == setIndexOfAssessment(recommendationSets, assessmentId)
    IN  Append(IF regenerate /\ existingIndex # 0
               THEN ArraySplice(recommendationSets, existingIndex)
               ELSE recommendationSets,
               set)

\* a variant that generates although a set is stored
returnsExistingNever(recommendationSets, assessmentId, regenerate) == FALSE

\* POST /api/recommendations answers with the stored set
returnsExisting(recommendationSets, assessmentId, regenerate) ==
    ~regenerate /\ setIndexOfAssessment(recommendationSets, assessmentId) # 0

\* POST /api/recommendations, up to its return or to the await of
\* generateAIRecommendations
PostRecommendations ==
    /\ started < MaxRequests
    /\ started' = started + 1
    /\ \E assessmentId \in assessmentIdsSent, regenerate \in BOOLEAN :
          LET fn == "POST /api/recommendations"
              assessmentIndex == assessmentIndexById(stores.assessments, assessmentId)
              assessment == stores.assessments[assessmentIndex]
              userIndex == userIndexById(stores.users, assessment.userId)
          IN  IF assessmentId = Absent
              THEN /\ ret' = [fn |-> fn, request |-> started + 1, status |-> 400,
                              assessmentId |-> assessmentId, regenerate |-> regenerate]
                   /\ UNCHANGED requests
              ELSE IF returnsExisting(stores.recommendationSets, assessmentId, regenerate)
              THEN /\ ret' = [fn |-> fn, request |-> started + 1, status |-> 200, generated |-> FALSE,
                              assessmentId |-> assessmentId, regenerate |-> regenerate,
                              data |-> stores.recommendationSets[
                                  setIndexOfAssessment(stores.recommendationSets,
                                                       assessmentId)]]
                   /\ UNCHANGED requests
              ELSE IF assessmentIndex = 0
              THEN /\ ret' = [fn |-> fn, request |-> started + 1, status |-> 404, error |-> "Assessment not found",
                              assessmentId |-> assessmentId, regenerate |-> regenerate]
                   /\ UNCHANGED requests
              ELSE IF userIndex = 0
              THEN /\ ret' = [fn |-> fn, request |-> started + 1, status |-> 404,
                              error |-> "User profile not found",
                              assessmentId |-> assessmentId, regenerate |-> regenerate]
                   /\ UNCHANGED requests
              ELSE /\ requests' = Append(requests,
                          [handler |-> fn, number |-> started + 1, assessmentId |-> assessmentId,
                           regenerate |-> regenerate, assessment |-> assessment,
                           userProfile |-> stores.users[userIndex]])
                   /\ UNCHANGED ret
    /\ UNCHANGED <<input, recs, history, gen, stores, now>>

\* generateAIRecommendations resolves for a suspended POST /api/recommendations,
\* which runs to its return
RecommendationsGenerated ==
    \E i \in DOMAIN requests, outcome \in GeneratorOutcomes :
       LET request == requests[i]
           recommendationSet ==
               generatedSet(request.assessment, request.userProfile, outcome, now)
       IN  /\ request.handler = "POST /api/recommendations"
           /\ stores' = [stores EXCEPT !.recommendationSets =
                            setsAfterGeneration(@, request.regenerate,
                                                request.assessmentId, recommendationSet)]
           /\ requests' = ArraySplice(requests, i)
           /\ ret' = [fn |-> request.handler, request |-> request.number, status |-> 200, generated |-> TRUE,
                      assessmentId |-> request.assessmentId,
                      regenerate |-> request.regenerate, data |-> recommendationSet]
           /\ UNCHANGED <<input, recs, history, gen, now, started>>

\* the report POST /api/reports builds and pushes
reportFor(assessment, date) ==
    [id |-> date, assessmentId |-> assessment.id, userId |-> assessment.userId,
     reportType |-> "detailed", generatedDate |-> date]

\* POST /api/reports with the default report type, up to its return or to the
\* await of generateAIRecommendations
PostReports ==
    /\ started < MaxRequests
    /\ started' = started + 1
    /\ \E assessmentId \in assessmentIdsSent :
          LET fn == "POST /api/reports"
              assessmentIndex == assessmentIndexById(stores.assessments, assessmentId)
              assessment == stores.assessments[assessmentIndex]
              userIndex == userIndexById(stores.users, assessment.userId)
          IN  IF assessmentId = Absent
              THEN /\ ret' = [fn |-> fn, request |-> started + 1, status |-> 400]
                   /\ UNCHANGED <<stores, requests>>
              ELSE IF assessmentIndex = 0
              THEN /\ ret' = [fn |-> fn, request |-> started + 1, status |-> 404, error |-> "Assessment not found"]
                   /\ UNCHANGED <<stores, requests>>
              ELSE IF userIndex = 0
              THEN /\ ret' = [fn |-> fn, request |-> started + 1, status |-> 404,
                              error |-> "User profile not found"]
                   /\ UNCHANGED <<stores, requests>>
              ELSE IF setIndexOfAssessment(stores.recommendationSets, assessmentId) # 0
              THEN /\ stores' = [stores EXCEPT
                          !.reports = Append(@, reportFor(assessment, now))]
                   /\ ret' = [fn |-> fn, request |-> started + 1, status |-> 200, generated |-> FALSE,
                              data |-> reportFor(assessment, now)]
                   /\ UNCHANGED requests
              ELSE /\ requests' = Append(requests,
                          [handler |-> fn, number |-> started + 1, assessmentId |-> assessmentId,
                           regenerate |-> FALSE, assessment |-> assessment,
                           userProfile |-> stores.users[userIndex]])
                   /\ UNCHANGED <<stores, ret>>
    /\ UNCHANGED <<input, recs, history, gen, now>>

\* generateAIRecommendations resolves for a suspended POST /api/reports, which
\* pushes the set and the report
ReportRecommendationsGenerated ==
    \E i \in DOMAIN requests, outcome \in GeneratorOutcomes :
       LET request == requests[i]
           recommendations ==
               generatedSet(request.assessment, request.userProfile, outcome, now)
       IN  /\ request.handler = "POST /api/reports"
           /\ stores' = [stores EXCEPT
                  !.recommendationSets = Append(@, recommendations),
                  !.reports = Append(@, reportFor(request.assessment, now))]
           /\ requests' = ArraySplice(requests, i)
           /\ ret' = [fn |-> request.handler, request |-> request.number, status |-> 200, generated |-> TRUE,
                      data |-> reportFor(request.assessment, now)]
           /\ UNCHANGED <<input, recs, history, gen, now, started>>

\* the assessments array after GET /api/assessments: without a userId the
\* handler sorts the array itself, with one it sorts the filtered copy
assessmentsAfterGet(assessments, userId) ==
    IF userId = Absent
    THEN ArraySort(assessments, byAssessmentDateDescending)
    ELSE assessments

\* GET /api/assessments, first page
GetAssessments ==
    /\ started < MaxRequests
    /\ started' = started + 1
    /\ \E userId \in userIdsSent :
          LET filteredAssessments ==
                  IF userId = Absent THEN stores.assessments
                  ELSE assessmentsOfUser(stores.assessments, userId)
              sorted == ArraySort(filteredAssessments, byAssessmentDateDescending)
          IN  /\ stores' = [stores EXCEPT !.assessments = assessmentsAfterGet(@, userId)]
              /\ ret' = [fn |-> "GET /api/assessments", request |-> started + 1, status |-> 200,
                         data |-> [i \in DOMAIN sorted |-> sorted[i].id],
                         total |-> Len(sorted)]
    /\ UNCHANGED <<input, recs, history, gen, requests, now>>

\* (a, b) => b.generatedDate.getTime() - a.generatedDate.getTime()
byGeneratedDateDescending(a, b) == b.generatedDate - a.generatedDate

\* the position in the store of the set GET /api/recommendations works on, 0
\* when there is none: the first set of the assessment, or else the latest set
\* of the user
setIndexForGet(recommendationSets, assessmentId, userId) ==
    IF assessmentId # Absent
    THEN setIndexOfAssessment(recommendationSets, assessmentId)
    ELSE LET ofUser(r) == r.userId = userId
             userRecommendations ==
                 ArraySort(ArrayFilter(recommendationSets, ofUser),
                           byGeneratedDateDescending)
             isLatest(r) == r = userRecommendations[1]
         IN  IF Len(userRecommendations) = 0 THEN 0
             ELSE ArrayFindIndex(recommendationSets, isLatest)

\* the query filters the client may send
QueryFilters == {NoFilters, [priority |-> "high"]}

\* GET /api/recommendations
GetRecommendations ==
    /\ started < MaxRequests
    /\ started' = started + 1
    /\ \E assessmentId \in assessmentIdsSent, userId \in userIdsSent,
          filters \in QueryFilters :
          LET fn == "GET /api/recommendations"
              index == setIndexForGet(stores.recommendationSets, assessmentId, userId)
              recommendationSet == stores.recommendationSets[index]
              filtered == filters # NoFilters
              filteredRecommendations ==
                  sortRecommendationsByPriority(
                      IF filtered
                      THEN filterRecommendations(recommendationSet.recommendations,
                                                 filters)
                      ELSE recommendationSet.recommendations)
          IN  /\ assessmentId # Absent => userId = Absent
              /\ IF assessmentId = Absent /\ userId = Absent
                 THEN /\ ret' = [fn |-> fn, request |-> started + 1, status |-> 400]
                      /\ UNCHANGED stores
                 ELSE IF index = 0
                 THEN /\ ret' = [fn |-> fn, request |-> started + 1, status |-> 404]
                      /\ UNCHANGED stores
                 ELSE \* without filters the sort works on the stored array
                      /\ stores' = IF filtered THEN stores
                                   ELSE [stores EXCEPT
                                            !.recommendationSets[index].recommendations =
                                                filteredRecommendations]
                      /\ ret' = [fn |-> fn, request |-> started + 1, status |-> 200,
                                 filteredRecommendations |-> filteredRecommendations]
    /\ UNCHANGED <<input, recs, history, gen, requests, now>>

InitServer ==
    /\ input = NeutralInput
    /\ ret = NoCall
    /\ recs = <<>>
    /\ history = <<>>
    /\ gen = GenIdle
    /\ stores = NoStores
    /\ requests = <<>>
    /\ now = 1
    /\ started = 0

NextServer ==
    \/ PostAssessments
    \/ Tick
    \/ PostRiskAnalysis
    \/ PostHealthMetrics
    \/ GetProgress
    \/ PostRecommendations
    \/ RecommendationsGenerated
    \/ PostReports
    \/ ReportRecommendationsGenerated
    \/ GetAssessments
    \/ GetRecommendations

SpecServer == InitServer /\ [][NextServer]_vars

\* C23: in every reachable state, under every interleaving of POST
\* /api/recommendations and POST /api/reports requests at their await points,
\* the recommendationSets store holds at most one RecommendationSet per
\* assessmentId.
C23_OneSetPerAssessment ==
    \A i, j \in DOMAIN stores.recommendationSets :
       stores.recommendationSets[i].assessmentId
          = stores.recommendationSets[j].assessmentId
       => i = j

\* C24: every assessment in the assessments store has a userId that is the id
\* of a profile in the users store, and no risk analysis requested for a stored
\* assessment answers 'User profile not found'.
C24_AssessmentsHaveProfiles ==
    /\ \A i \in DOMAIN stores.assessments :
          userIndexById(stores.users, stores.assessments[i].userId) # 0
    /\ ~(/\ ret.fn = "POST /api/risk-analysis"
         /\ ret.status = 404
         /\ ret.error = "User profile not found")

GetHandlers ==
    {"GET /api/assessments", "GET /api/recommendations",
     "GET /api/health-metrics/progress"}

\* C28: no GET handler changes an in-memory store: after GET /api/assessments,
\* GET /api/recommendations or the GET_PROGRESS request, the assessments,
\* recommendationSets (with the order of each set's recommendations) and
\* progressTracking stores hold the same entries in the same order as before.
C28_GetHandlersChangeNoStore ==
    [][(started' = started + 1 /\ ret'.fn \in GetHandlers)
       => /\ stores'.assessments = stores.assessments
          /\ stores'.recommendationSets = stores.recommendationSets
          /\ stores'.progressTracking = stores.progressTracking]_vars

\* the number of stored sets of the assessment
setsOfAssessment(recommendationSets, assessmentId) ==
    Cardinality({i \in DOMAIN recommendationSets :
                    recommendationSets[i].assessmentId = assessmentId})

\* C29: POST /api/recommendations with regenerate absent or false, for an
\* assessmentId that already has a stored RecommendationSet, returns that
\* stored set, does not call the recommendation generator, and leaves the
\* recommendationSets store unchanged; with regenerate = true the previously
\* stored set for that assessmentId is replaced by the newly generated one.
C29_ExistingReturnedOrReplaced ==
    [][/\ \* the request is answered at once
          (/\ started' = started + 1
           /\ ret'.fn = "POST /api/recommendations"
           /\ ret'.request = started'
           /\ ~ret'.regenerate
           /\ setIndexOfAssessment(stores.recommendationSets, ret'.assessmentId) # 0)
          => /\ ret'.status = 200
             /\ ret'.data = stores.recommendationSets[
                   setIndexOfAssessment(stores.recommendationSets, ret'.assessmentId)]
             /\ requests' = requests
             /\ stores' = stores
       /\ \* the generator is called
          (/\ started' = started + 1
           /\ Len(requests') = Len(requests) + 1
           /\ requests'[Len(requests')].handler = "POST /api/recommendations"
           /\ ~requests'[Len(requests')].regenerate)
          => setIndexOfAssessment(stores.recommendationSets,
                                  requests'[Len(requests')].assessmentId) = 0
       /\ \* the generator has answered a request with regenerate = true
          (/\ Len(requests') = Len(requests) - 1
           /\ ret'.fn = "POST /api/recommendations"
           /\ ret'.regenerate)
          => LET old == stores.recommendationSets
                 new == stores'.recommendationSets
                 k == setIndexOfAssessment(old, ret'.assessmentId)
             IN  /\ ret'.data.assessmentId = ret'.assessmentId
                 /\ ret'.data.generatedDate = now
                 /\ new[Len(new)] = ret'.data
                 /\ k = 0 => new = Append(old, ret'.data)
                 /\ k # 0 => /\ Len(new) = Len(old)
                             /\ \A i \in 1..(Len(old) - 1) :
                                   new[i] = IF i < k THEN old[i] ELSE old[i + 1]
                 /\ setsOfAssessment(old, ret'.assessmentId) = 1
                    => /\ setsOfAssessment(new, ret'.assessmentId) = 1
                       /\ new[setIndexOfAssessment(new, ret'.assessmentId)] = ret'.data]_vars

\* a report request stored the first set of the assessment at time 1, and a
\* regenerating request has replaced it by a set generated at time 2
C29_Witness ==
    /\ ret.fn = "POST /api/recommendations"
    /\ ret.status = 200
    /\ ret.generated
    /\ ret.regenerate
    /\ Len(stores.reports) = 1
    /\ stores.reports[1].assessmentId = ret.assessmentId
    /\ stores.reports[1].generatedDate = 1
    /\ Len(stores.recommendationSets) = 1
    /\ stores.recommendationSets[1] = ret.data
    /\ ret.data.generatedDate = 2
    /\ ret.data.aiGenerated

\* the overallScore of the user's earliest stored assessment, 0 without one
earliestScore(assessments, userId) ==
    LET userAssessments == ArraySort(assessmentsOfUser(assessments, userId),
                                     byAssessmentDate)
    IN  IF Len(userAssessments) = 0 THEN 0 ELSE userAssessments[1].overallScore

\* C30: after any sequence of assessment-creation, risk-analysis, health-metric
\* and progress requests, every ProgressTracking record's initialScore equals
\* the current overallScore of that user's earliest stored assessment (0 when
\* the user has none).
C30_InitialScoreIsEarliestScore ==
    \A i \in DOMAIN stores.progressTracking :
       stores.progressTracking[i].initialScore
          = earliestScore(stores.assessments, stores.progressTracking[i].userId)

====
